---- MODULE Spec2Model ----
(***************************************************************************)
(* Model of the procedural surface geometry engine of lsystems-gui:        *)
(*   - the Bezier editor scene (picking / drag controller, GUI edits and   *)
(*     mesh refreshes) of src/src/scene/bezier/mod.rs, with the trackball  *)
(*     camera of src/src/rendering/camera.rs;                              *)
(*   - the normal generator of src/src/rendering/meshes.rs.                *)
(*                                                                         *)
(* World coordinates are integers in units of 0.25 (the spacing of the     *)
(* default control points), lengths that are compared against the picking  *)
(* sphere are converted to hundredths.  Rust indices are 0-based and are   *)
(* kept 0-based in the state; At(s, i) reads element i of a vector.        *)
(*                                                                         *)
(* handle_event is "only called if the UI does not want to grab input"     *)
(* (mod.rs 616): an event the GUI grabs never reaches it, so presses,      *)
(* releases and cursor moves arrive in any order and GUI frames interleave *)
(* with them.  The viewport size is fixed (handle_resize is not modelled)  *)
(* and the lighting widgets of the Settings section, which touch only the  *)
(* lights, are left out.                                                   *)
(***************************************************************************)
EXTENDS Integers, Sequences, FiniteSets, TLC

\* ------------------------------------------------------------------ bounds
MaxSteps == 4         \* handler invocations explored from construction
MaxVerts == 6         \* vertices / index entries given to the normal generator
MaxGrid == 2          \* rows, columns, slices and tiles of a tessellation
MaxSegments == 2      \* segments added to one line geometry
MaxAttrs == 3         \* attribute arrays of one geometry
MaxAttrLen == 2       \* entries of one attribute or index array

\* --------------------------------------------------------- Option<T>, Vec<T>
None == <<>>
Some(v) == <<v>>
IsSome(o) == o # <<>>
Unwrap(o) == o[1]
At(s, i) == s[i + 1]
InRange(s, i) == i >= 0 /\ i < Len(s)
RemoveAt(s, i) == [n \in 1..(Len(s) - 1) |-> IF n <= i THEN s[n] ELSE s[n + 1]]

\* ------------------------------------------------------------ vectors (Vec3)
VAdd(a, b) == <<a[1] + b[1], a[2] + b[2], a[3] + b[3]>>
VSub(a, b) == <<a[1] - b[1], a[2] - b[2], a[3] - b[3]>>
VDot(a, b) == a[1] * b[1] + a[2] * b[2] + a[3] * b[3]
ComponentMul(a, b) == <<a[1] * b[1], a[2] * b[2], a[3] * b[3]>>
DistSq(a, b) == VDot(VSub(a, b), VSub(a, b))

\* ------------------------------------------------- data/bezier.rs parameters
DefaultCoord == <<0, 1, 3, 4>>       \* 0.0, 0.25, 0.75, 1.0
DefaultColor == <<7, 7, 7>>          \* 0.7, 0.7, 0.7 in tenths

BezierPatchDefault ==
    [ curves |-> [j \in 1..4 |->
          [control_points |-> [k \in 1..4 |-> <<DefaultCoord[k], DefaultCoord[j], 0>>]]],
      color |-> DefaultColor ]

BezierModelDefault == [symbol |-> None, patches |-> <<BezierPatchDefault>>]

MirrorPlanes == {"XY", "XZ", "YZ", "None"}

Factors(plane) ==
    CASE plane = "XY" -> <<1, 1, -1>>
      [] plane = "XZ" -> <<1, -1, 1>>
      [] plane = "YZ" -> <<-1, 1, 1>>
      [] plane = "None" -> <<1, 1, 1>>

CloneMirrored(patch, plane) ==
    [ patch EXCEPT !.curves = [j \in 1..4 |->
          [control_points |-> [k \in 1..4 |->
              ComponentMul(patch.curves[j].control_points[k], Factors(plane))]]] ]

\* ------------------------------------------------------------------ inputs
Width == 1
Height == 1
Depths == {0, 1}                            \* values read from the depth buffer
\* window.get_cursor_pos() at a button press: the bottom row of the viewport
PressPositions == {<<x, Height>> : x \in 0..Width}
\* positions of CursorPos events: the same row, and positions beyond the edges
CursorPositions ==
    PressPositions \cup {<<Width + 1, Height>>, <<0, Height + 1>>, <<-1, Height>>, <<0, -1>>}
GuiColors == {<<10, 0, 0>>}                 \* colour picked in the ColorEdit
GuiPoints == {<<1, 0, 1>>}                  \* value typed into a DragFloat3
GuiPointIdx == {<<0, 1>>}                   \* (curve, point) widgets exercised

\* ------------------------------------------------------------------- state
VARIABLES
    model,                  \* RcCell<BezierModelParameters> shared with the caller
    working_copy,           \* the copy the editor operates on
    camera,                 \* Camera
    meshes,                 \* Vec<Mesh>, surface mesh per patch
    control_point_models,   \* Vec<MultiModel>
    control_curve_meshes,   \* Vec<Mesh>
    normal_vector_vis,      \* Vec<Mesh>
    draw_control_curves,
    draw_normal_vectors,
    drag_begin,             \* Option<(u32, u32)>
    drag_depth,             \* Option<f32>
    dragged_point,          \* Option<(usize, usize, usize)>
    in_drag,
    active,                 \* Vec<bool>
    gui_cached_id,          \* Option<usize>
    open_popup,             \* the imgui popup that is currently open
    status,                 \* "running", "popped" (SceneAction::PopScene) or "panicked"
    steps,                  \* handler invocations so far
    log_create_mesh,        \* patch indices passed to create_mesh by the last handler
    log_camera_event,       \* whether the last handler called camera.handle_event
    log_read_pixels,        \* gl::ReadPixels calls made by the last handler
    button1_down,           \* whether the primary mouse button is held (SpecInput only)
    ng,                     \* input and output of the normal generator
    geo,                    \* the geometry under construction and the last result
    lsys,                   \* LSystemScene: bezier models, mesh manager, edit session
    mgr,                    \* a BezierMeshManager and the last call made on it
    pal                     \* colour palette, engine output and the last mesh retrieval

sceneVars == <<model, working_copy, camera, meshes, control_point_models,
               control_curve_meshes, normal_vector_vis, draw_control_curves,
               draw_normal_vectors, drag_begin, drag_depth, dragged_point, in_drag,
               active, gui_cached_id, open_popup, status, steps,
               log_create_mesh, log_camera_event, log_read_pixels, button1_down>>

lsysVars == <<lsys, mgr, pal>>
vars == <<sceneVars, ng, geo, lsysVars>>

\* ------------------------------------------------- meshes built by the editor
\* BezierGeometry::new(patch, 30, 30) samples the patch and regenerates the
\* normals; a geometry is represented by the parameters it was sampled from.
BezierGeometryNew(patch, rows, cols) == [parameters |-> patch, rows |-> rows, cols |-> cols]

CreateMesh(patch) ==
    [primitive |-> "TriangleStrip", material |-> "ShadedMaterial",
     geometry |-> BezierGeometryNew(patch, 30, 30)]

CreateNormalMesh(patch) ==
    [primitive |-> "TriangleStrip", material |-> "NormalTestMaterial",
     geometry |-> BezierGeometryNew(patch, 30, 30)]

\* one sphere per control point, curve by curve, translated to the point
CreateControlPointModel(patch) ==
    [n \in 1..16 |-> patch.curves[((n - 1) \div 4) + 1].control_points[((n - 1) % 4) + 1]]

\* line list: for every curve the segments (p0,p1), (p1,p2), (p2,p3)
CreateControlCurveMesh(patch) ==
    [primitive |-> "Lines", material |-> "SimpleMaterial",
     positions |-> [n \in 1..24 |->
         patch.curves[((n - 1) \div 6) + 1].control_points[
             (((n - 1) % 6) \div 2) + ((n - 1) % 2) + 1]]]

RefreshControlMeshes(patches) ==
    [control_point_models |-> [n \in 1..Len(patches) |-> CreateControlPointModel(patches[n])],
     control_curve_meshes |-> [n \in 1..Len(patches) |-> CreateControlCurveMesh(patches[n])]]

\* refresh_meshes: every surface mesh (and normal visualisation) is rebuilt
RefreshMeshes(patches, dnv) ==
    [meshes |-> [n \in 1..Len(patches) |-> CreateMesh(patches[n])],
     normal_vector_vis |-> IF dnv THEN [n \in 1..Len(patches) |-> CreateNormalMesh(patches[n])]
                           ELSE <<>>,
     control_point_models |-> RefreshControlMeshes(patches).control_point_models,
     control_curve_meshes |-> RefreshControlMeshes(patches).control_curve_meshes,
     created |-> [n \in 1..Len(patches) |-> n - 1]]

\* refresh_mesh_for(index): indexing a missing element panics
RefreshMeshForPanics(patches, index) ==
    \/ ~InRange(patches, index)
    \/ ~InRange(meshes, index)
    \/ ~InRange(control_point_models, index)
    \/ ~InRange(control_curve_meshes, index)
    \/ (draw_normal_vectors /\ ~InRange(normal_vector_vis, index))

\* variant of RefreshMeshFor that rebuilds the control visualisations only
RefreshMeshForControlsOnly(patches, index) ==
    [meshes |-> meshes,
     control_point_models |->
         [control_point_models EXCEPT ![index + 1] = CreateControlPointModel(At(patches, index))],
     control_curve_meshes |->
         [control_curve_meshes EXCEPT ![index + 1] = CreateControlCurveMesh(At(patches, index))],
     normal_vector_vis |-> normal_vector_vis,
     created |-> <<>>]

RefreshMeshFor(patches, index) ==
    [meshes |-> [meshes EXCEPT ![index + 1] = CreateMesh(At(patches, index))],
     control_point_models |->
         [control_point_models EXCEPT ![index + 1] = CreateControlPointModel(At(patches, index))],
     control_curve_meshes |->
         [control_curve_meshes EXCEPT ![index + 1] = CreateControlCurveMesh(At(patches, index))],
     normal_vector_vis |->
         IF draw_normal_vectors
         THEN [normal_vector_vis EXCEPT ![index + 1] = CreateNormalMesh(At(patches, index))]
         ELSE normal_vector_vis,
     created |-> <<index>>]

\* ------------------------------------------------------------------ camera
\* The view matrix is a function of the rotation angles and the target; it
\* is represented by the screen-space offset it induces.
LookAt(theta, phi, target) == <<theta + target[1], phi + target[2]>>

CameraNew ==
    [is_dragging |-> FALSE, move_mode |-> "None", drag_start |-> <<0, 0>>,
     theta |-> 0, phi |-> 0, target |-> <<0, 0>>, view |-> LookAt(0, 0, <<0, 0>>)]

DragUpdate(cam, pos) == IF cam.is_dragging THEN [cam EXCEPT !.drag_start = pos] ELSE cam

DragStart(cam, pos) == DragUpdate([cam EXCEPT !.is_dragging = TRUE], pos)

DragEnd(cam) ==
    IF cam.is_dragging THEN [DragUpdate(cam, <<0, 0>>) EXCEPT !.is_dragging = FALSE] ELSE cam

Rotate(cam, pos) ==
    LET theta == cam.theta + (cam.drag_start[1] - pos[1])
        phi == cam.phi + (cam.drag_start[2] - pos[2])
    IN  [cam EXCEPT !.theta = theta, !.phi = phi, !.view = LookAt(theta, phi, cam.target)]

Pan(cam, pos) ==
    LET target == <<cam.target[1] + (cam.drag_start[1] - pos[1]),
                    cam.target[2] + (cam.drag_start[2] - pos[2])>>
    IN  [cam EXCEPT !.target = target, !.view = LookAt(cam.theta, cam.phi, target)]

\* An event is [type, button, action, cursor] for a mouse button (cursor is
\* what window.get_cursor_pos() returns), [type, x, y] for a cursor move.
CameraHandleEvent(cam, ev) ==
    IF ev.type = "MouseButton" /\ ev.action = "Press" /\ ev.button = 1
    THEN [DragStart(cam, ev.cursor) EXCEPT !.move_mode = "Rotate"]
    ELSE IF ev.type = "MouseButton" /\ ev.action = "Press" /\ ev.button = 2
    THEN [DragStart(cam, ev.cursor) EXCEPT !.move_mode = "Pan"]
    ELSE IF ev.type = "MouseButton" /\ ev.action = "Release"
    THEN DragEnd(cam)
    ELSE IF ev.type = "CursorPos"
    THEN IF cam.is_dragging
         THEN DragUpdate(
                  CASE cam.move_mode = "Rotate" -> Rotate(cam, <<ev.x, ev.y>>)
                    [] cam.move_mode = "Pan" -> Pan(cam, <<ev.x, ev.y>>)
                    [] OTHER -> cam,
                  <<ev.x, ev.y>>)
         ELSE cam
    ELSE cam

\* ------------------------------------------------------------------ picking
LatticeUnit == 25        \* one coordinate unit (0.25) in hundredths
BallRadius == 1          \* 0.01 in hundredths
ProximityMargin == 1     \* 0.01 in hundredths

\* unproject(): window position and depth to world space through the current view
Unproject(x, y, depth) ==
    <<x + camera.view[1], (Height - y) + camera.view[2], depth>>

\* ncollide3d::query::proximity of two balls of radius BallRadius
Proximity(a, b) ==
    LET d2 == LatticeUnit * LatticeUnit * DistSq(a, b)
        r == BallRadius + BallRadius
    IN  IF d2 <= r * r THEN "Intersecting"
        ELSE IF d2 <= (r + ProximityMargin) * (r + ProximityMargin) THEN "WithinMargin"
        ELSE "Disjoint"

ControlPoint(patches, i, j, k) == At(At(At(patches, i).curves, j).control_points, k)

\* variant of FindFrom that also tests the control points of hidden patches
RECURSIVE FindFromIgnoreActive(_, _, _)
FindFromIgnoreActive(n, position, depth) ==
    LET i == n \div 16
        j == (n % 16) \div 4
        k == n % 4
    IN  IF i >= Len(working_copy.patches) THEN None
        ELSE IF Proximity(position, ControlPoint(working_copy.patches, i, j, k)) = "Intersecting"
        THEN Some(<<depth, i, j, k>>)
        ELSE FindFromIgnoreActive(n + 1, position, depth)

\* the nested loops of find_clicked_control_point, flattened: candidate n is
\* patch n / 16, curve (n % 16) / 4, point n % 4
RECURSIVE FindFrom(_, _, _)
FindFrom(n, position, depth) ==
    LET i == n \div 16
        j == (n % 16) \div 4
        k == n % 4
    IN  IF i >= Len(working_copy.patches) THEN None
        ELSE IF ~At(active, i) THEN FindFrom((i + 1) * 16, position, depth)
        ELSE IF Proximity(position, ControlPoint(working_copy.patches, i, j, k)) = "Intersecting"
        THEN Some(<<depth, i, j, k>>)
        ELSE FindFrom(n + 1, position, depth)

\* depth is the value gl::ReadPixels returns for the pixel
FindClickedControlPoint(x, y, depth) == FindFrom(0, Unproject(x, y, depth), depth)

\* render(): what is drawn, patch by patch, for the active patches
Render ==
    [i \in {n \in 0..(Len(working_copy.patches) - 1) : At(active, n)} |->
        [mesh |-> At(meshes, i),
         control_points |-> At(control_point_models, i),
         control_curves |-> IF draw_control_curves THEN Some(At(control_curve_meshes, i)) ELSE None,
         normals |-> IF draw_normal_vectors THEN Some(At(normal_vector_vis, i)) ELSE None]]

\* ---------------------------------------------------------- construction
InitialModels == {BezierModelDefault}

NgIdle == [pc |-> "idle"]
GeoIdle == [op |-> "idle"]
LsysIdle == [pc |-> "idle"]
LsysVarsIdle == lsys = LsysIdle /\ mgr = LsysIdle /\ pal = LsysIdle

\* BezierEditorScene::new
SceneInit ==
    /\ model \in InitialModels
    /\ working_copy = model
    /\ camera = CameraNew
    /\ active = [n \in 1..Len(model.patches) |-> TRUE]
    /\ draw_control_curves = TRUE
    /\ draw_normal_vectors = FALSE
    /\ meshes = RefreshMeshes(model.patches, FALSE).meshes
    /\ normal_vector_vis = RefreshMeshes(model.patches, FALSE).normal_vector_vis
    /\ control_point_models = RefreshMeshes(model.patches, FALSE).control_point_models
    /\ control_curve_meshes = RefreshMeshes(model.patches, FALSE).control_curve_meshes
    /\ in_drag = FALSE
    /\ drag_depth = None
    /\ drag_begin = None
    /\ dragged_point = None
    /\ gui_cached_id = None
    /\ open_popup = "none"
    /\ status = "running"
    /\ steps = 0
    /\ log_create_mesh = RefreshMeshes(model.patches, FALSE).created
    /\ log_camera_event = FALSE
    /\ log_read_pixels = 0
    /\ button1_down = FALSE

Init == SceneInit /\ ng = NgIdle /\ geo = GeoIdle /\ LsysVarsIdle

\* ------------------------------------------------------------ handle_event
Running == status = "running" /\ steps < MaxSteps

InViewport(x, y) == x >= 0 /\ x <= Width /\ y >= 0 /\ y <= Height

meshVars == <<meshes, control_point_models, control_curve_meshes, normal_vector_vis>>
dragVars == <<drag_begin, drag_depth, dragged_point, in_drag>>
guiVars == <<active, gui_cached_id, open_popup, draw_control_curves, draw_normal_vectors>>

SetMeshes(r) ==
    /\ meshes' = r.meshes
    /\ control_point_models' = r.control_point_models
    /\ control_curve_meshes' = r.control_curve_meshes
    /\ normal_vector_vis' = r.normal_vector_vis
    /\ log_create_mesh' = r.created

\* an index or unwrap panic aborts the program: nothing is published
PanicInEvent ==
    /\ status' = "panicked"
    /\ log_create_mesh' = <<>>
    /\ UNCHANGED <<working_copy, meshVars, dragVars>>

\* variant of ForwardToCamera without the in_drag test
ForwardToCameraAlways(ev) ==
    /\ IF status' = "running"
       THEN camera' = CameraHandleEvent(camera, ev) /\ log_camera_event' = TRUE
       ELSE camera' = camera /\ log_camera_event' = FALSE
    /\ steps' = steps + 1
    /\ UNCHANGED <<model, guiVars, ng, geo, lsysVars>>

\* the tail of handle_event: the camera sees the event unless a drag is on
ForwardToCamera(ev) ==
    /\ IF status' = "running" /\ ~in_drag'
       THEN camera' = CameraHandleEvent(camera, ev) /\ log_camera_event' = TRUE
       ELSE camera' = camera /\ log_camera_event' = FALSE
    /\ steps' = steps + 1
    /\ UNCHANGED <<model, guiVars, ng, geo, lsysVars>>

\* variant of HandleButton1Press that starts a drag of point (0, 0, 0) on a miss
HandleButton1PressAlwaysDrags(x, y, depth) ==
    /\ Running
    /\ log_read_pixels' = 1
    /\ LET found == FindClickedControlPoint(x, y, depth)
       IN  /\ drag_begin' = Some(<<x, y>>)
           /\ drag_depth' = Some(depth)
           /\ in_drag' = TRUE
           /\ dragged_point' = IF IsSome(found)
                               THEN Some(<<Unwrap(found)[2], Unwrap(found)[3], Unwrap(found)[4]>>)
                               ELSE Some(<<0, 0, 0>>)
    /\ log_create_mesh' = <<>>
    /\ UNCHANGED <<working_copy, meshVars, status>>
    /\ ForwardToCamera([type |-> "MouseButton", button |-> 1, action |-> "Press", cursor |-> <<x, y>>])

\* MouseButton(Button1, Press): x, y from window.get_cursor_pos(), depth from the depth buffer
HandleButton1Press(x, y, depth) ==
    /\ Running
    /\ log_read_pixels' = 1
    /\ LET found == FindClickedControlPoint(x, y, depth)
       IN  IF IsSome(found)
           THEN /\ drag_begin' = Some(<<x, y>>)
                /\ drag_depth' = Some(Unwrap(found)[1])
                /\ in_drag' = TRUE
                /\ dragged_point' = Some(<<Unwrap(found)[2], Unwrap(found)[3], Unwrap(found)[4]>>)
           ELSE UNCHANGED dragVars
    /\ log_create_mesh' = <<>>
    /\ UNCHANGED <<working_copy, meshVars, status>>
    /\ ForwardToCamera([type |-> "MouseButton", button |-> 1, action |-> "Press", cursor |-> <<x, y>>])

\* variant of HandleButton1Release that rebuilds the dragged patch only
HandleButton1ReleaseOwningPatch ==
    /\ Running
    /\ IF in_drag
       THEN /\ in_drag' = FALSE
            /\ SetMeshes(RefreshMeshFor(working_copy.patches, Unwrap(dragged_point)[1]))
       ELSE /\ in_drag' = in_drag
            /\ log_create_mesh' = <<>>
            /\ UNCHANGED meshVars
    /\ log_read_pixels' = 0
    /\ UNCHANGED <<working_copy, drag_begin, drag_depth, dragged_point, status>>
    /\ ForwardToCamera([type |-> "MouseButton", button |-> 1, action |-> "Release", cursor |-> <<0, 0>>])

\* variant of HandleButton1Release that resets the drag data
HandleButton1ReleaseClears ==
    /\ Running
    /\ IF in_drag
       THEN /\ in_drag' = FALSE
            /\ SetMeshes(RefreshMeshes(working_copy.patches, draw_normal_vectors))
       ELSE /\ in_drag' = in_drag
            /\ log_create_mesh' = <<>>
            /\ UNCHANGED meshVars
    /\ log_read_pixels' = 0
    /\ drag_begin' = None
    /\ drag_depth' = None
    /\ dragged_point' = None
    /\ UNCHANGED <<working_copy, status>>
    /\ ForwardToCamera([type |-> "MouseButton", button |-> 1, action |-> "Release", cursor |-> <<0, 0>>])

\* MouseButton(Button1, Release)
HandleButton1Release ==
    /\ Running
    /\ IF in_drag
       THEN /\ in_drag' = FALSE
            /\ SetMeshes(RefreshMeshes(working_copy.patches, draw_normal_vectors))
       ELSE /\ in_drag' = in_drag
            /\ log_create_mesh' = <<>>
            /\ UNCHANGED meshVars
    /\ log_read_pixels' = 0
    /\ UNCHANGED <<working_copy, drag_begin, drag_depth, dragged_point, status>>
    /\ ForwardToCamera([type |-> "MouseButton", button |-> 1, action |-> "Release", cursor |-> <<0, 0>>])

\* a drag move that ends with refresh_meshes instead of
\* refresh_control_meshes_for_dragged
DragMoveRefreshesAll(x, y) ==
    IF ~IsSome(drag_begin) \/ ~IsSome(drag_depth) \/ ~IsSome(dragged_point)
    THEN PanicInEvent
    ELSE LET new_point == Unproject(x, y, Unwrap(drag_depth))
             i == Unwrap(dragged_point)[1]
             j == Unwrap(dragged_point)[2]
             k == Unwrap(dragged_point)[3]
             patches == [working_copy.patches EXCEPT
                            ![i + 1].curves[j + 1].control_points[k + 1] = new_point]
         IN  IF ~InRange(working_copy.patches, i)
             THEN PanicInEvent
             ELSE /\ working_copy' = [working_copy EXCEPT !.patches = patches]
                  /\ drag_begin' = Some(<<x, y>>)
                  /\ SetMeshes(RefreshMeshes(patches, draw_normal_vectors))
                  /\ UNCHANGED <<drag_depth, dragged_point, in_drag, status>>

\* CursorPos(x, y) while dragging, inside the viewport
DragMove(x, y) ==
    IF ~IsSome(drag_begin) \/ ~IsSome(drag_depth) \/ ~IsSome(dragged_point)
    THEN PanicInEvent
    ELSE LET new_point == Unproject(x, y, Unwrap(drag_depth))
             i == Unwrap(dragged_point)[1]
             j == Unwrap(dragged_point)[2]
             k == Unwrap(dragged_point)[3]
             patches == [working_copy.patches EXCEPT
                            ![i + 1].curves[j + 1].control_points[k + 1] = new_point]
         IN  IF \/ ~InRange(working_copy.patches, i)
                \/ ~InRange(control_curve_meshes, i)
                \/ ~InRange(control_point_models, i)
             THEN PanicInEvent
             ELSE /\ working_copy' = [working_copy EXCEPT !.patches = patches]
                  /\ drag_begin' = Some(<<x, y>>)
                  \* refresh_control_meshes_for_dragged
                  /\ control_curve_meshes' =
                         [control_curve_meshes EXCEPT ![i + 1] = CreateControlCurveMesh(At(patches, i))]
                  /\ control_point_models' =
                         [control_point_models EXCEPT ![i + 1] = CreateControlPointModel(At(patches, i))]
                  /\ log_create_mesh' = <<>>
                  /\ UNCHANGED <<meshes, normal_vector_vis, drag_depth, dragged_point, in_drag, status>>

\* CursorPos(x, y) while dragging, outside the viewport
DragLeave ==
    IF ~IsSome(dragged_point) \/ RefreshMeshForPanics(working_copy.patches, Unwrap(dragged_point)[1])
    THEN PanicInEvent
    ELSE /\ in_drag' = FALSE
         /\ SetMeshes(RefreshMeshFor(working_copy.patches, Unwrap(dragged_point)[1]))
         /\ UNCHANGED <<working_copy, drag_begin, drag_depth, dragged_point, status>>

\* CursorPos(x, y)
HandleCursorPos(x, y) ==
    /\ Running
    /\ log_read_pixels' = 0
    /\ IF in_drag
       THEN IF InViewport(x, y) THEN DragMove(x, y) ELSE DragLeave
       ELSE /\ log_create_mesh' = <<>>
            /\ UNCHANGED <<working_copy, meshVars, dragVars, status>>
    /\ ForwardToCamera([type |-> "CursorPos", x |-> x, y |-> y])

\* every other event: the editor itself does nothing
OtherEvents ==
    {[type |-> "MouseButton", button |-> 2, action |-> "Press", cursor |-> pos] :
         pos \in PressPositions}
    \cup {[type |-> "MouseButton", button |-> 2, action |-> "Release", cursor |-> <<0, 0>>]}

\* variant of HandleOtherEvent that moves the selection to the next point
HandleOtherEventReselect(ev) ==
    /\ Running
    /\ log_read_pixels' = 0
    /\ log_create_mesh' = <<>>
    /\ dragged_point' = IF IsSome(dragged_point)
                        THEN Some(<<Unwrap(dragged_point)[1], Unwrap(dragged_point)[2],
                                    (Unwrap(dragged_point)[3] + 1) % 4>>)
                        ELSE dragged_point
    /\ UNCHANGED <<working_copy, meshVars, drag_begin, drag_depth, in_drag, status>>
    /\ ForwardToCamera(ev)

HandleOtherEvent(ev) ==
    /\ Running
    /\ log_read_pixels' = 0
    /\ log_create_mesh' = <<>>
    /\ UNCHANGED <<working_copy, meshVars, dragVars, status>>
    /\ ForwardToCamera(ev)

\* ------------------------------------------------------------------ do_gui
\* One do_gui call per frame; at most one widget reports an interaction.
\* Widgets below a modal popup do not respond while it is open.
GuiReady == status = "running" /\ steps < MaxSteps
PatchIdx == 0..(Len(working_copy.patches) - 1)

GuiPanic ==
    /\ status' = "panicked"
    /\ log_create_mesh' = <<>>
    /\ UNCHANGED <<working_copy, active, meshVars>>

\* the end of the "Models" section: refresh_all, else modified
GuiRefresh(patches, act, refresh_all, modified) ==
    IF refresh_all
    THEN /\ working_copy' = [working_copy EXCEPT !.patches = patches]
         /\ active' = act
         /\ SetMeshes(RefreshMeshes(patches, draw_normal_vectors))
         /\ status' = status
    ELSE IF IsSome(modified)
    THEN IF RefreshMeshForPanics(patches, Unwrap(modified))
         THEN GuiPanic
         ELSE /\ working_copy' = [working_copy EXCEPT !.patches = patches]
              /\ active' = act
              /\ SetMeshes(RefreshMeshFor(patches, Unwrap(modified)))
              /\ status' = status
    ELSE /\ working_copy' = [working_copy EXCEPT !.patches = patches]
         /\ active' = act
         /\ log_create_mesh' = <<>>
         /\ status' = status
         /\ UNCHANGED meshVars

GuiFrame ==
    /\ steps' = steps + 1
    /\ log_camera_event' = FALSE
    /\ log_read_pixels' = 0
    /\ UNCHANGED <<camera, dragVars, button1_down, ng, geo, lsysVars>>

\* checkbox "Active" of patch i
GuiActive(i) ==
    /\ GuiReady /\ open_popup = "none"
    /\ GuiRefresh(working_copy.patches, [active EXCEPT ![i + 1] = ~active[i + 1]], FALSE, None)
    /\ GuiFrame
    /\ UNCHANGED <<model, gui_cached_id, open_popup, draw_control_curves, draw_normal_vectors>>

\* button "Clone.." of patch i: show_clone_menu = Some(i)
GuiCloneButton(i) ==
    /\ GuiReady /\ open_popup = "none"
    /\ gui_cached_id' = Some(i)
    /\ open_popup' = "Clone"
    /\ GuiRefresh(working_copy.patches, active, FALSE, None)
    /\ GuiFrame
    /\ UNCHANGED <<model, draw_control_curves, draw_normal_vectors>>

\* button "Remove" of patch i: show_delete_popup = Some(i)
GuiRemoveButton(i) ==
    /\ GuiReady /\ open_popup = "none"
    /\ gui_cached_id' = Some(i)
    /\ open_popup' = "Delete model?"
    /\ GuiRefresh(working_copy.patches, active, FALSE, None)
    /\ GuiFrame
    /\ UNCHANGED <<model, draw_control_curves, draw_normal_vectors>>

\* a ColorEdit that writes the colour into the shared model as well
GuiColorEditWritesThrough(i, color) ==
    /\ GuiReady /\ open_popup = "none"
    /\ color # At(working_copy.patches, i).color
    /\ model' = [model EXCEPT !.patches =
                     [n \in 1..Len(@) |-> IF n = i + 1 THEN [@[n] EXCEPT !.color = color]
                                          ELSE @[n]]]
    /\ GuiRefresh([working_copy.patches EXCEPT ![i + 1].color = color], active, FALSE, Some(i))
    /\ GuiFrame
    /\ UNCHANGED <<gui_cached_id, open_popup, draw_control_curves, draw_normal_vectors>>

\* ColorEdit "Model Color" of patch i
GuiColorEdit(i, color) ==
    /\ GuiReady /\ open_popup = "none"
    /\ color # At(working_copy.patches, i).color
    /\ GuiRefresh([working_copy.patches EXCEPT ![i + 1].color = color], active, FALSE, Some(i))
    /\ GuiFrame
    /\ UNCHANGED <<model, gui_cached_id, open_popup, draw_control_curves, draw_normal_vectors>>

\* drag_float3 "Point k" of curve j of patch i
GuiDragFloat3(i, j, k, point) ==
    /\ GuiReady /\ open_popup = "none"
    /\ point # ControlPoint(working_copy.patches, i, j, k)
    /\ GuiRefresh([working_copy.patches EXCEPT ![i + 1].curves[j + 1].control_points[k + 1] = point],
                  active, FALSE, Some(i))
    /\ GuiFrame
    /\ UNCHANGED <<model, gui_cached_id, open_popup, draw_control_curves, draw_normal_vectors>>

\* button "+"
GuiAddPatch ==
    /\ GuiReady /\ open_popup = "none"
    /\ GuiRefresh(Append(working_copy.patches, BezierPatchDefault), Append(active, TRUE), TRUE, None)
    /\ GuiFrame
    /\ UNCHANGED <<model, gui_cached_id, open_popup, draw_control_curves, draw_normal_vectors>>

\* popup "Delete model?": Yes removes the cached patch, No only closes
GuiDeletePopup(button) ==
    /\ GuiReady /\ open_popup = "Delete model?"
    /\ open_popup' = "none"
    /\ IF button = "Yes"
       THEN IF ~IsSome(gui_cached_id) \/ ~InRange(active, Unwrap(gui_cached_id))
                                      \/ ~InRange(working_copy.patches, Unwrap(gui_cached_id))
            THEN GuiPanic
            ELSE GuiRefresh(RemoveAt(working_copy.patches, Unwrap(gui_cached_id)),
                            RemoveAt(active, Unwrap(gui_cached_id)), TRUE, None)
       ELSE GuiRefresh(working_copy.patches, active, FALSE, None)
    /\ GuiFrame
    /\ UNCHANGED <<model, gui_cached_id, draw_control_curves, draw_normal_vectors>>

\* popup "Clone": a Selectable clones the cached patch, mirrored on a plane
GuiCloneSelect(plane) ==
    /\ GuiReady /\ open_popup = "Clone"
    /\ open_popup' = "none"
    /\ IF ~IsSome(gui_cached_id) \/ ~InRange(working_copy.patches, Unwrap(gui_cached_id))
       THEN GuiPanic
       ELSE GuiRefresh(Append(working_copy.patches,
                              CloneMirrored(At(working_copy.patches, Unwrap(gui_cached_id)), plane)),
                       Append(active, TRUE), TRUE, None)
    /\ GuiFrame
    /\ UNCHANGED <<model, gui_cached_id, draw_control_curves, draw_normal_vectors>>

\* popup "Clone" closed by a click elsewhere
GuiCloneDismiss ==
    /\ GuiReady /\ open_popup = "Clone"
    /\ open_popup' = "none"
    /\ GuiRefresh(working_copy.patches, active, FALSE, None)
    /\ GuiFrame
    /\ UNCHANGED <<model, gui_cached_id, draw_control_curves, draw_normal_vectors>>

\* checkbox "Draw normal vectors": refresh_meshes with the new flag
GuiDrawNormalVectors ==
    /\ GuiReady /\ open_popup = "none"
    /\ draw_normal_vectors' = ~draw_normal_vectors
    /\ SetMeshes(RefreshMeshes(working_copy.patches, ~draw_normal_vectors))
    /\ GuiFrame
    /\ UNCHANGED <<model, working_copy, active, status, gui_cached_id, open_popup, draw_control_curves>>

\* checkbox "Draw control curves"
GuiDrawControlCurves ==
    /\ GuiReady /\ open_popup = "none"
    /\ draw_control_curves' = ~draw_control_curves
    /\ log_create_mesh' = <<>>
    /\ GuiFrame
    /\ UNCHANGED <<model, working_copy, active, meshVars, status, gui_cached_id, open_popup,
                   draw_normal_vectors>>

\* buttons "Cancel", "Save", "Save and Exit"
GuiCancel ==
    /\ GuiReady /\ open_popup = "none"
    /\ status' = "popped"
    /\ log_create_mesh' = <<>>
    /\ GuiFrame
    /\ UNCHANGED <<model, working_copy, active, meshVars, gui_cached_id, open_popup,
                   draw_control_curves, draw_normal_vectors>>

GuiSave ==
    /\ GuiReady /\ open_popup = "none"
    /\ model' = working_copy
    /\ log_create_mesh' = <<>>
    /\ GuiFrame
    /\ UNCHANGED <<working_copy, active, meshVars, status, gui_cached_id, open_popup,
                   draw_control_curves, draw_normal_vectors>>

GuiSaveAndExit ==
    /\ GuiReady /\ open_popup = "none"
    /\ model' = working_copy
    /\ status' = "popped"
    /\ log_create_mesh' = <<>>
    /\ GuiFrame
    /\ UNCHANGED <<working_copy, active, meshVars, gui_cached_id, open_popup,
                   draw_control_curves, draw_normal_vectors>>

\* ------------------------------------------------------------ specification
EventButton1Press ==
    /\ UNCHANGED button1_down
    /\ \E pos \in PressPositions, d \in Depths : HandleButton1Press(pos[1], pos[2], d)
EventButton1Release == UNCHANGED button1_down /\ HandleButton1Release
EventCursorPos ==
    /\ UNCHANGED button1_down
    /\ \E pos \in CursorPositions : HandleCursorPos(pos[1], pos[2])
EventOther ==
    /\ UNCHANGED button1_down
    /\ \E ev \in OtherEvents : HandleOtherEvent(ev)
FrameActive == \E i \in PatchIdx : GuiActive(i)
FrameCloneButton == \E i \in PatchIdx : GuiCloneButton(i)
FrameRemoveButton == \E i \in PatchIdx : GuiRemoveButton(i)
FrameColorEdit == \E i \in PatchIdx, c \in GuiColors : GuiColorEdit(i, c)
FrameDragFloat3 == \E i \in PatchIdx, jk \in GuiPointIdx, p \in GuiPoints : GuiDragFloat3(i, jk[1], jk[2], p)
FrameDeletePopup == \E b \in {"Yes", "No"} : GuiDeletePopup(b)
FrameCloneSelect == \E plane \in MirrorPlanes : GuiCloneSelect(plane)

Next ==
    \/ EventButton1Press
    \/ EventButton1Release
    \/ EventCursorPos
    \/ EventOther
    \/ FrameActive
    \/ FrameCloneButton
    \/ FrameRemoveButton
    \/ FrameColorEdit
    \/ FrameDragFloat3
    \/ GuiAddPatch
    \/ FrameDeletePopup
    \/ FrameCloneSelect
    \/ GuiCloneDismiss
    \/ GuiDrawNormalVectors
    \/ GuiDrawControlCurves
    \/ GuiCancel
    \/ GuiSave
    \/ GuiSaveAndExit

Spec == Init /\ [][Next]_vars

\* ------------------------------------------------ properties of the editor
PointIdx == {<<i, j, k>> : i \in PatchIdx, j \in 0..3, k \in 0..3}
\* the control points of active patches whose sphere intersects the one at position
Hits(position) ==
    {p \in PointIdx : /\ At(active, p[1])
                      /\ Proximity(position, ControlPoint(working_copy.patches, p[1], p[2], p[3]))
                             = "Intersecting"}
\* (patch, curve, point) enumeration order
Before(p, q) ==
    \/ p[1] < q[1]
    \/ p[1] = q[1] /\ p[2] < q[2]
    \/ p[1] = q[1] /\ p[2] = q[2] /\ p[3] < q[3]
DraggedPatch == Unwrap(dragged_point)[1]
DragDataAllSome == IsSome(drag_begin) /\ IsSome(drag_depth) /\ IsSome(dragged_point)
DragDataAllNone == drag_begin = None /\ drag_depth = None /\ dragged_point = None
\* the world position the current drag data unprojects to
DragPosition == Unproject(Unwrap(drag_begin)[1], Unwrap(drag_begin)[2], Unwrap(drag_depth))
\* patches whose surface mesh was not built from their current parameters
StalePatches ==
    {i \in PatchIdx : \/ ~InRange(meshes, i)
                      \/ At(meshes, i) # CreateMesh(At(working_copy.patches, i))}
ControlMeshesCurrent ==
    /\ control_point_models = RefreshControlMeshes(working_copy.patches).control_point_models
    /\ control_curve_meshes = RefreshControlMeshes(working_copy.patches).control_curve_meshes
HandleEventStep == EventButton1Press \/ EventButton1Release \/ EventCursorPos \/ EventOther

C2_DragMoveSetsPoint ==
    [][\A pos \in CursorPositions :
          (in_drag /\ InViewport(pos[1], pos[2]) /\ HandleCursorPos(pos[1], pos[2])) =>
              /\ status' = "running"
              /\ in_drag'
              /\ Len(working_copy'.patches) = Len(working_copy.patches)
              /\ Unwrap(dragged_point) \in PointIdx
              /\ \A p \in PointIdx :
                     ControlPoint(working_copy'.patches, p[1], p[2], p[3]) =
                         IF p = Unwrap(dragged_point)
                         THEN Unproject(pos[1], pos[2], Unwrap(drag_depth))
                         ELSE ControlPoint(working_copy.patches, p[1], p[2], p[3])]_vars

\* C3 as stated: a release while Dragging goes to Idle, leaves the control
\* points alone and rebuilds exactly one surface mesh, that of the patch that
\* owns the dragged point; a release while Idle rebuilds nothing.
C3_ReleaseRebuildsOwningPatch ==
    [][HandleButton1Release =>
          IF in_drag
          THEN /\ ~in_drag'
               /\ working_copy' = working_copy
               /\ log_create_mesh' = <<DraggedPatch>>
          ELSE log_create_mesh' = <<>>]_vars

\* C3: a release while Dragging goes to Idle, leaves the control points alone
\* and runs one full refresh that rebuilds the surface mesh of every patch
\* exactly once, in patch order; a release while Idle rebuilds nothing.
C3_ReleaseRebuildsEveryPatch ==
    [][HandleButton1Release =>
          IF in_drag
          THEN /\ ~in_drag'
               /\ status' = "running"
               /\ working_copy' = working_copy
               /\ log_create_mesh' = [n \in 1..Len(working_copy.patches) |-> n - 1]
               /\ meshes' = [n \in 1..Len(working_copy.patches) |-> CreateMesh(working_copy.patches[n])]
          ELSE log_create_mesh' = <<>> /\ UNCHANGED <<meshVars, working_copy, dragVars>>]_vars

\* a release has just ended a drag that moved a point of one of two patches:
\* both surface meshes were rebuilt and the point is where the drag left it
C3_Witness ==
    /\ status = "running" /\ ~in_drag /\ log_camera_event
    /\ log_create_mesh = <<0, 1>>
    /\ DragDataAllSome
    /\ Unwrap(dragged_point) \in PointIdx
    /\ ControlPoint(working_copy.patches, DraggedPatch, Unwrap(dragged_point)[2],
                    Unwrap(dragged_point)[3]) = DragPosition
    /\ working_copy # model
    /\ StalePatches = {}

\* C4: a primary-button press under which no control point of an active patch
\* lies changes neither the drag state nor any control point, and rebuilds no
\* mesh.
C4_PressMissChangesNothing ==
    [][\A pos \in PressPositions, d \in Depths :
          (HandleButton1Press(pos[1], pos[2], d) /\ Hits(Unproject(pos[1], pos[2], d)) = {}) =>
              /\ UNCHANGED dragVars
              /\ UNCHANGED working_copy
              /\ UNCHANGED meshVars
              /\ log_create_mesh' = <<>>
              /\ status' = "running"]_vars

\* a press has just missed: the depth buffer was read, the controller is Idle
\* and the press went on to the camera
C4_Witness ==
    /\ status = "running" /\ log_read_pixels = 1 /\ ~in_drag
    /\ log_camera_event /\ camera.is_dragging
    /\ log_create_mesh = <<>>

\* C5: while Dragging, a cursor move outside the viewport is an implicit
\* release: the controller becomes Idle, no control point changes and the
\* surface mesh of the patch owning the dragged point is rebuilt; cursor moves
\* while Idle change no control point.
C5_LeaveIsImplicitRelease ==
    [][\A pos \in CursorPositions :
          /\ (in_drag /\ ~InViewport(pos[1], pos[2]) /\ HandleCursorPos(pos[1], pos[2])) =>
                 /\ status' = "running"
                 /\ ~in_drag'
                 /\ working_copy' = working_copy
                 /\ InRange(working_copy.patches, DraggedPatch)
                 /\ log_create_mesh' = <<DraggedPatch>>
                 /\ At(meshes', DraggedPatch) = CreateMesh(At(working_copy.patches, DraggedPatch))
          /\ (~in_drag /\ HandleCursorPos(pos[1], pos[2])) => working_copy' = working_copy]_vars

\* C6: an event after which the controller is Dragging is not forwarded to
\* the camera, and the camera state is unchanged by it.
C6_CameraSuppressedWhileDragging ==
    [][(status' = "running" /\ in_drag' /\ HandleEventStep) =>
          (~log_camera_event' /\ camera' = camera)]_vars

\* a press has just selected a control point while the camera was in the
\* middle of a pan that started elsewhere: the camera did not see the press
C6_Witness ==
    /\ status = "running" /\ in_drag /\ log_read_pixels = 1
    /\ ~log_camera_event
    /\ camera.is_dragging /\ camera.move_mode = "Pan"
    /\ camera.drag_start # Unwrap(drag_begin)

C8_IdleHasNoDragData ==
    ~in_drag => DragDataAllNone

\* C8: whenever the controller is Dragging, drag_begin, drag_depth and
\* dragged_point all hold a value; the three are set together and, once set,
\* are never reset: a release or a viewport exit only clears in_drag, so in
\* Idle after a session they keep the values of that session.
C8_DragDataSetWhileDragging ==
    [][/\ in_drag' => DragDataAllSome'
       /\ DragDataAllSome => DragDataAllSome'
       /\ DragDataAllSome' \/ DragDataAllNone'
       /\ (in_drag /\ ~in_drag') => UNCHANGED <<drag_begin, drag_depth, dragged_point>>]_vars

\* a release or viewport exit has just ended a session: the controller is Idle
\* and the three values are still there
C8_Witness ==
    /\ status = "running" /\ ~in_drag /\ DragDataAllSome
    /\ log_camera_event /\ log_create_mesh # <<>>

\* C9 as stated: at every render the surface mesh drawn for an active patch
\* was built from that patch's current control points and colour.
C9_RenderedMeshCurrent ==
    \A i \in DOMAIN Render : Render[i].mesh = CreateMesh(At(working_copy.patches, i))

\* C9: after every handler the control-point models and control-curve meshes
\* of all patches are built from the current control points, and a surface
\* mesh that is not built from its patch's current parameters is either one
\* that already was not before the handler or the mesh of the dragged patch
\* after a cursor move inside the viewport: a drag move refreshes the control
\* visualisations only, so the dragged patch is rendered with a stale surface
\* until a release, a viewport exit or a GUI edit of that patch rebuilds it.
C9_SurfaceStaleOnlyByDragMove ==
    [][/\ ControlMeshesCurrent'
       /\ Len(meshes') = Len(working_copy'.patches)
       /\ \A i \in StalePatches' :
              \/ i \in StalePatches
              \/ /\ in_drag /\ in_drag'
                 /\ i = DraggedPatch
                 /\ \E pos \in CursorPositions :
                        InViewport(pos[1], pos[2]) /\ HandleCursorPos(pos[1], pos[2])]_vars

\* a drag has moved a point of an active patch: its control visualisations
\* follow the point, its surface mesh is still the one built before the move
C9_Witness ==
    /\ status = "running" /\ in_drag
    /\ InRange(working_copy.patches, DraggedPatch)
    /\ At(active, DraggedPatch)
    /\ DraggedPatch \in StalePatches
    /\ ControlMeshesCurrent

\* ---------------------------------------------------------- NormalGenerator
\* A float vector is [v |-> integer triple, nan |-> BOOLEAN]: normalising the
\* zero vector divides 0 by 0, which yields NaN in every component.
FVec(v) == [v |-> v, nan |-> FALSE]
NaNVec == [v |-> <<0, 0, 0>>, nan |-> TRUE]
FZeros == FVec(<<0, 0, 0>>)
FAdd(a, b) == IF a.nan \/ b.nan THEN NaNVec ELSE FVec(VAdd(a.v, b.v))

Abs(n) == IF n < 0 THEN -n ELSE n
Cross(a, b) ==
    <<a[2] * b[3] - a[3] * b[2], a[3] * b[1] - a[1] * b[3], a[1] * b[2] - a[2] * b[1]>>
\* the Euclidean norm; exact for the axis-parallel vectors the inputs produce
Norm(v) ==
    IF Cardinality({k \in 1..3 : v[k] # 0}) <= 1 THEN Abs(v[1]) + Abs(v[2]) + Abs(v[3])
    ELSE CHOOSE r \in 0..(Abs(v[1]) + Abs(v[2]) + Abs(v[3])) : r * r = VDot(v, v)
Normalize(a) ==
    IF a.nan \/ a.v = <<0, 0, 0>> THEN NaNVec
    ELSE FVec(<<a.v[1] \div Norm(a.v), a.v[2] \div Norm(a.v), a.v[3] \div Norm(a.v)>>)

PrimitiveTypes == {"Triangles", "TriangleStrip", "TriangleFan", "Lines"}

\* calculate_faces: a face is a triple of 0-based vertex indices; a panic
\* aborts the generator
FacesPanic == [panic |-> TRUE, faces |-> <<>>]
FacesOk(faces) == [panic |-> FALSE, faces |-> faces]
CalculateFaces(pt, num_vertices) ==
    IF num_vertices < 3 THEN FacesPanic
    ELSE CASE pt = "TriangleFan" ->
                  FacesOk([n \in 1..(num_vertices - 2) |-> <<0, n, n + 1>>])
           [] pt = "Triangles" ->
                  IF num_vertices % 3 # 0 THEN FacesPanic
                  ELSE FacesOk([n \in 1..(num_vertices \div 3) |->
                                   <<3 * (n - 1), 3 * (n - 1) + 1, 3 * (n - 1) + 2>>])
           [] pt = "TriangleStrip" ->
                  FacesOk([n \in 1..(num_vertices - 2) |-> <<n - 1, n, n + 1>>])
           [] OTHER -> FacesPanic

\* variant of CalculateIndexedFaces whose fan takes the sliding window of a strip
CalculateIndexedFacesFanSlides(pt, indices) ==
    CASE pt = "TriangleFan" ->
             FacesOk([n \in 1..(IF Len(indices) > 2 THEN Len(indices) - 2 ELSE 0) |->
                         <<indices[n], indices[n + 1], indices[n + 2]>>])
      [] pt = "Triangles" ->
             IF Len(indices) % 3 # 0 THEN FacesPanic
             ELSE FacesOk([n \in 1..(Len(indices) \div 3) |->
                              <<indices[3 * n - 2], indices[3 * n - 1], indices[3 * n]>>])
      [] pt = "TriangleStrip" ->
             FacesOk([n \in 1..(IF Len(indices) > 2 THEN Len(indices) - 2 ELSE 0) |->
                         <<indices[n], indices[n + 1], indices[n + 2]>>])
      [] OTHER -> FacesPanic

\* calculate_indexed_faces: the same windows over the index sequence
CalculateIndexedFaces(pt, indices) ==
    CASE pt = "TriangleFan" ->
             FacesOk([n \in 1..(IF Len(indices) > 2 THEN Len(indices) - 2 ELSE 0) |->
                         <<indices[1], indices[n + 1], indices[n + 2]>>])
      [] pt = "Triangles" ->
             IF Len(indices) % 3 # 0 THEN FacesPanic
             ELSE FacesOk([n \in 1..(Len(indices) \div 3) |->
                              <<indices[3 * n - 2], indices[3 * n - 1], indices[3 * n]>>])
      [] pt = "TriangleStrip" ->
             FacesOk([n \in 1..(IF Len(indices) > 2 THEN Len(indices) - 2 ELSE 0) |->
                         <<indices[n], indices[n + 1], indices[n + 2]>>])
      [] OTHER -> FacesPanic

\* generate_face_normals: normalize((C - B) x (A - B))
GenerateFaceNormals(positions, faces) ==
    [n \in 1..Len(faces) |->
        LET vA == At(positions, faces[n][1])
            vB == At(positions, faces[n][2])
            vC == At(positions, faces[n][3])
        IN  Normalize(FVec(Cross(VSub(vC, vB), VSub(vA, vB))))]

\* the accumulation loop of generate_normals after the first n faces
RECURSIVE Accumulate(_, _, _, _)
Accumulate(normals, faces, face_normals, n) ==
    IF n = 0 THEN normals
    ELSE LET acc == Accumulate(normals, faces, face_normals, n - 1)
             normal == face_normals[n]
             ax == [acc EXCEPT ![faces[n][1] + 1] = FAdd(@, normal)]
             ay == [ax EXCEPT ![faces[n][2] + 1] = FAdd(@, normal)]
         IN  [ay EXCEPT ![faces[n][3] + 1] = FAdd(@, normal)]

\* the accumulation loop of generate_indexed_normals after the first n faces
RECURSIVE AccumulateIndexed(_, _, _, _)
AccumulateIndexed(normals, faces, face_normals, n) ==
    IF n = 0 THEN normals
    ELSE LET acc == AccumulateIndexed(normals, faces, face_normals, n - 1)
             normal == face_normals[n]
             ax == [acc EXCEPT ![faces[n][1] + 1] = normal]
             ay == [ax EXCEPT ![faces[n][2] + 1] = normal]
         IN  [ay EXCEPT ![faces[n][3] + 1] = normal]

GenerateNormals(pt, positions) ==
    LET zeros == [n \in 1..Len(positions) |-> FZeros]
        calculated == CalculateFaces(pt, Len(positions))
        faces == calculated.faces
    IN  IF calculated.panic THEN [result |-> "panic"]
        ELSE LET face_normals == GenerateFaceNormals(positions, faces)
                 acc == Accumulate(zeros, faces, face_normals, Len(faces))
             IN  [result |-> "ok", faces |-> faces, face_normals |-> face_normals,
                  accumulators |-> acc,
                  normals |-> [n \in 1..Len(acc) |-> Normalize(acc[n])]]

GenerateIndexedNormals(pt, positions, indices) ==
    LET zeros == [n \in 1..Len(positions) |-> FZeros]
        calculated == CalculateIndexedFaces(pt, indices)
        faces == calculated.faces
    IN  IF calculated.panic THEN [result |-> "panic"]
        ELSE LET face_normals == GenerateFaceNormals(positions, faces)
                 acc == AccumulateIndexed(zeros, faces, face_normals, Len(faces))
             IN  [result |-> "ok", faces |-> faces, face_normals |-> face_normals,
                  accumulators |-> acc,
                  normals |-> [n \in 1..Len(acc) |-> Normalize(acc[n])]]

\* inputs: vertices in the plane z = 0; index sequences over the vertices
NgPoints == {<<0, 0, 0>>, <<1, 0, 0>>, <<0, 1, 0>>, <<1, 1, 0>>}
NgPositions == UNION {[1..n -> NgPoints] : n \in 2..MaxVerts}
Identity(n) == [m \in 1..n |-> m - 1]
NgIndices(n) ==
    {Identity(n), [m \in 1..n |-> n - m], [m \in 1..(n - 1) |-> m - 1],
     [m \in 1..(n + 1) |-> IF m <= n THEN m - 1 ELSE 0]}

NgInit ==
    /\ SceneInit
    /\ ng \in [pc : {"input"}, pt : PrimitiveTypes, positions : NgPositions]
    /\ geo = GeoIdle
    /\ LsysVarsIdle

NgGenerateNormals ==
    /\ ng.pc = "input"
    /\ ng' = [pc |-> "done", variant |-> "plain", pt |-> ng.pt, positions |-> ng.positions,
              indices |-> Identity(Len(ng.positions)),
              out |-> GenerateNormals(ng.pt, ng.positions)]
    /\ UNCHANGED <<sceneVars, geo, lsysVars>>

NgGenerateIndexedNormals ==
    /\ ng.pc = "input"
    /\ \E indices \in NgIndices(Len(ng.positions)) :
           ng' = [pc |-> "done", variant |-> "indexed", pt |-> ng.pt, positions |-> ng.positions,
                  indices |-> indices,
                  out |-> GenerateIndexedNormals(ng.pt, ng.positions, indices)]
    /\ UNCHANGED <<sceneVars, geo, lsysVars>>

NgNext == NgGenerateNormals \/ NgGenerateIndexedNormals

SpecNormals == NgInit /\ [][NgNext]_vars

\* ------------------------------------------- geometry (rendering/meshes.rs)
\* A sampled position is kept exact: every position of one geometry is a
\* triple of integer numerators over one common denominator, which the
\* geometry records in `denom`. Directions, and with them the normals, do not
\* depend on the common denominator, so the normal generator is run on the
\* numerators.

\* control point coordinates are numerators over CoordDenom (0.25 is 1)
CoordDenom == 4
\* a parameter value x / n as the pair <<x, n>>
Param(x, n) == <<x, n>>
Cube(n) == n * n * n
VScale(a, c) == <<a[1] * c, a[2] * c, a[3] * c>>

\* Bernstein weights handed out in the opposite order, b3..b0
BernsteinReversed(u) ==
    LET a == u[1]
        b == u[2]
    IN  <<Cube(a), 3 * a * a * (b - a), 3 * a * (b - a) * (b - a), Cube(b - a)>>
\* the Bernstein weights b0..b3 of u = a / b, as numerators over b^3
Bernstein(u) ==
    LET a == u[1]
        b == u[2]
    IN  <<Cube(b - a), 3 * a * (b - a) * (b - a), 3 * a * a * (b - a), Cube(a)>>

\* BezierCurveParameters::evaluate: numerators over (denominator of the
\* control points) * b^3
CurveEvaluate(control_points, u) ==
    LET w == Bernstein(u)
    IN  VAdd(VAdd(VAdd(VScale(control_points[1], w[1]), VScale(control_points[2], w[2])),
                  VScale(control_points[3], w[3])),
             VScale(control_points[4], w[4]))

\* BezierPatchParameters::evaluate: numerators over PatchDenom(u, v)
PatchEvaluate(patch, u, v) ==
    LET pt0 == CurveEvaluate(patch.curves[1].control_points, u)
        pt1 == CurveEvaluate(patch.curves[2].control_points, u)
        pt2 == CurveEvaluate(patch.curves[3].control_points, u)
        pt3 == CurveEvaluate(patch.curves[4].control_points, u)
    IN  CurveEvaluate(<<pt0, pt1, pt2, pt3>>, v)
PatchDenom(u, v) == CoordDenom * Cube(u[2]) * Cube(v[2])

\* the index buffer of PlaneGeometry::new: one strip per row of cells, two
\* stitch indices after every strip but the last
PlaneRowIndices(y, rows, cols) ==
    LET base == y * (cols + 1)
        strip == [n \in 1..(2 * (cols + 1)) |->
                     IF n % 2 = 1 THEN base + (n - 1) \div 2
                     ELSE base + (cols + 1) + (n - 1) \div 2]
    IN  IF y < rows - 1
        THEN strip \o <<(y + 1) * (cols + 1) + ((cols + 1) - 1), (y + 1) * (cols + 1)>>
        ELSE strip
RECURSIVE PlaneIndices(_, _, _)
PlaneIndices(y, rows, cols) ==   \* after the iterations 0..y-1 of the row loop
    IF y = 0 THEN <<>>
    ELSE PlaneIndices(y - 1, rows, cols) \o PlaneRowIndices(y - 1, rows, cols)

\* PlaneGeometry::new(rows, cols, color) for rows >= 1 and cols >= 1: the
\* vertex (x, y) is (x / cols, y / rows, 0), here over the denominator
\* rows * cols
PlaneGeometryNew(rows, cols, color) ==
    LET total_vertices == (rows + 1) * (cols + 1)
    IN  [ positions |-> [n \in 1..total_vertices |->
                            <<((n - 1) % (cols + 1)) * rows, ((n - 1) \div (cols + 1)) * cols, 0>>],
          denom |-> rows * cols,
          colors |-> [n \in 1..total_vertices |-> color],
          normals |-> [n \in 1..total_vertices |-> FVec(<<0, 1, 0>>)],
          indices |-> PlaneIndices(rows, rows, cols) ]

\* PlaneGeometry::regenerate_normals
RegenerateNormals(plane) ==
    [ plane EXCEPT !.normals =
          GenerateIndexedNormals("TriangleStrip", plane.positions, plane.indices).normals ]

\* the displacement functions handed to with_displacement: f(u, v) with
\* u = x / cols and v = y / rows, over the denominator rows * cols
Displacements == {"xy", "yx", "xz"}
Displace(f, x, y, rows, cols) ==
    CASE f = "xy" -> <<x * rows, y * cols, 0>>
      [] f = "yx" -> <<y * cols, x * rows, 0>>
      [] f = "xz" -> <<x * rows, 0, y * cols>>

\* the vertex writes of with_displacement, row by row
RECURSIVE DisplaceFill(_, _, _, _, _)
DisplaceFill(plane, f, rows, cols, n) ==   \* after the first n writes
    IF n = 0 THEN plane
    ELSE LET y == (n - 1) \div (cols + 1)
             x == (n - 1) % (cols + 1)
             base == y * (cols + 1)
             before == DisplaceFill(plane, f, rows, cols, n - 1)
         IN  [before EXCEPT !.positions[(base + x) + 1] = Displace(f, x, y, rows, cols)]

\* a displacement that regenerates the normals before it writes the vertices
WithDisplacementRegenerateFirst(rows, cols, color, f) ==
    DisplaceFill(RegenerateNormals(PlaneGeometryNew(rows, cols, color)), f, rows, cols,
                 (rows + 1) * (cols + 1))
\* PlaneGeometry::with_displacement
WithDisplacement(rows, cols, color, f) ==
    RegenerateNormals(
        DisplaceFill(PlaneGeometryNew(rows, cols, color), f, rows, cols,
                     (rows + 1) * (cols + 1)))

\* PlaneGeometry::set_vertex
SetVertex(plane, index, vertex) == [plane EXCEPT !.positions[index + 1] = vertex]

\* vertex writes that lay the samples out column after column
RECURSIVE BezierFillColumnMajor(_, _, _, _, _)
BezierFillColumnMajor(plane, parameters, rows, cols, n) ==
    IF n = 0 THEN plane
    ELSE LET x == (n - 1) \div (rows + 1)
             y == (n - 1) % (rows + 1)
             index == x * (rows + 1) + y
             vertex == PatchEvaluate(parameters, Param(x, cols), Param(y, rows))
         IN  SetVertex(BezierFillColumnMajor(plane, parameters, rows, cols, n - 1), index, vertex)
\* the vertex writes of BezierGeometry::new, column by column
RECURSIVE BezierFill(_, _, _, _, _)
BezierFill(plane, parameters, rows, cols, n) ==   \* after the first n writes
    IF n = 0 THEN plane
    ELSE LET x == (n - 1) \div (rows + 1)
             y == (n - 1) % (rows + 1)
             index_base == y * (cols + 1)
             index == index_base + x
             u == Param(x, cols)
             v == Param(y, rows)
             pt0 == CurveEvaluate(parameters.curves[1].control_points, u)
             pt1 == CurveEvaluate(parameters.curves[2].control_points, u)
             pt2 == CurveEvaluate(parameters.curves[3].control_points, u)
             pt3 == CurveEvaluate(parameters.curves[4].control_points, u)
             vertex == CurveEvaluate(<<pt0, pt1, pt2, pt3>>, v)
         IN  SetVertex(BezierFill(plane, parameters, rows, cols, n - 1), index, vertex)

\* BezierGeometry::new(parameters, rows, cols), with the surface sampled
\* rather than abstracted as in BezierGeometryNew
BezierGeometryTessellate(parameters, rows, cols) ==
    RegenerateNormals(
        [ BezierFill(PlaneGeometryNew(rows, cols, parameters.color), parameters, rows, cols,
                     (rows + 1) * (cols + 1))
          EXCEPT !.denom = CoordDenom * Cube(cols) * Cube(rows) ])

\* the index buffer of SphereGeometry::new: the loops over j in 0..tiles-1 and
\* i in 1..slices-1, six indices per step, with offset = j * slices
SphereStepIndices(idx, slices) ==
    <<idx - 1, idx + slices - 1, idx, idx, idx + slices - 1, idx + slices>>
RECURSIVE SphereIndices(_, _)
SphereIndices(n, slices) ==   \* after the first n steps of the two loops
    IF n = 0 THEN <<>>
    ELSE LET j == (n - 1) \div (slices - 1)
             i == 1 + ((n - 1) % (slices - 1))
             offset == j * slices
         IN  SphereIndices(n - 1, slices) \o SphereStepIndices(i + offset, slices)

\* SphereGeometry::new(radius, slices, tiles, color) for slices >= 1 and
\* tiles >= 1; the vertex (i, j) is kept as the pair of table positions
\* (i, j % slices) its sines and cosines are read from
SphereGeometryNew(slices, tiles, color) ==
    LET total == (tiles + 1) * (slices + 1)
        angles == [n \in 1..total |-> <<(n - 1) \div (slices + 1), ((n - 1) % (slices + 1)) % slices>>]
    IN  [ positions |-> angles,
          colors |-> [n \in 1..total |-> color],
          normals |-> angles,
          indices |-> SphereIndices(tiles * (slices - 1), slices) ]

\* LineGeometry::new and LineGeometry::add_segment
LineGeometryNew == [positions |-> <<>>, colors |-> <<>>, widths |-> <<>>, indices |-> <<>>]
\* an add_segment whose indices are taken from the length after the pushes
AddSegmentIndexPastEnd(line, begin, end, color, width) ==
    LET positions == Append(Append(line.positions, begin), end)
        index0 == Len(positions)
        index1 == index0 + 1
    IN  [ positions |-> positions,
          colors |-> Append(Append(line.colors, color), color),
          widths |-> Append(Append(line.widths, width), width),
          indices |-> Append(Append(line.indices, index0), index1) ]
AddSegment(line, begin, end, color, width) ==
    LET positions == Append(Append(line.positions, begin), end)
        index0 == Len(positions) - 2
        index1 == index0 + 1
    IN  [ positions |-> positions,
          colors |-> Append(Append(line.colors, color), color),
          widths |-> Append(Append(line.widths, width), width),
          indices |-> Append(Append(line.indices, index0), index1) ]

\* Geometry::retrieve_attributes of the plane, sphere and line geometries
RetrieveAttributes(kind, geometry) ==
    IF kind = "line" THEN <<geometry.positions, geometry.colors, geometry.widths>>
    ELSE <<geometry.positions, geometry.colors, geometry.normals>>

\* Mesh::retrieve_vertex_count over the attribute arrays of a geometry
AllSame(arr) == IF arr = <<>> THEN FALSE ELSE \A n \in 1..Len(arr) : arr[n] = arr[1]
RetrieveVertexCount(attributes) ==
    LET lengths == [n \in 1..Len(attributes) |-> Len(attributes[n])]
    IN  IF AllSame(lengths) THEN Some(lengths[1]) ELSE None

\* Mesh::new and Mesh::new_indexed; a failed expect is the result "panic"
MeshPanic(msg) == [result |-> "panic", message |-> msg, num_vertices |-> 0, indexed |-> FALSE]
\* a constructor that does not look at the attribute lengths
MeshNewUnchecked(pt, attributes) ==
    [result |-> "ok", message |-> "", num_vertices |-> 0, indexed |-> FALSE]
MeshNew(pt, attributes) ==
    LET count == RetrieveVertexCount(attributes)
    IN  IF count = None THEN MeshPanic("Geometry attribute buffer sizes inconsistent")
        ELSE [result |-> "ok", message |-> "", num_vertices |-> count[1], indexed |-> FALSE]
MeshNewIndexed(pt, attributes, indices) ==
    [result |-> "ok", message |-> "", num_vertices |-> Len(indices), indexed |-> TRUE]

\* ExtendableBasicGeometry: the dynamically added attributes, in the order
\* they were added
ExtendableBasicGeometryNew == [dynamic |-> <<>>]
NextIndex(geometry) == Len(geometry.dynamic) + 3
AddAttr(geometry, type, label) ==
    [ geometry EXCEPT !.dynamic =
          Append(@, [index |-> NextIndex(geometry), label |-> label, type |-> type,
                     local_buffer |-> <<>>]) ]
LookupPanic(msg) == [result |-> "panic", message |-> msg, index |-> 0]
\* attr_by_label and attr_by_label_mut: the first attribute carrying the label
\* is the one downcast to AttributeArray<T>
AttrByLabel(geometry, type, label) ==
    LET found == {n \in 1..Len(geometry.dynamic) : geometry.dynamic[n].label = label}
    IN  IF found = {} THEN LookupPanic("Attribute with requested label not found")
        ELSE LET rf == geometry.dynamic[CHOOSE n \in found : \A m \in found : n <= m]
             IN  IF rf.type = type
                 THEN [result |-> "ok", message |-> "", index |-> rf.index]
                 ELSE LookupPanic("Type mismatch!")

\* ------------------------------------------------ the geometry constructors
\* Each action runs one constructor or one operation of rendering/meshes.rs,
\* rendering/bezier.rs, rendering/primitives/line.rs or data/bezier.rs on
\* inputs drawn from the sets below and records its inputs and its result in
\* `geo`; a line geometry and an extendable geometry go on to be changed.
GeoPatchXZ ==
    [ curves |-> [j \in 1..4 |->
          [control_points |-> [k \in 1..4 |-> <<DefaultCoord[k], 0, DefaultCoord[j]>>]]],
      color |-> DefaultColor ]
GeoPatches == {BezierPatchDefault, CloneMirrored(BezierPatchDefault, "YZ"), GeoPatchXZ}
GeoGrid == 1..MaxGrid
GeoParams == {Param(a, b) : a \in 0..MaxGrid, b \in GeoGrid}
GeoSegments == {<<<<0, 0, 0>>, <<1, 0, 0>>>>, <<<<1, 0, 0>>, <<1, 1, 0>>>>}
GeoTypes == {"f32", "Vec3"}
GeoLabels == {"width", "uv"}
GeoArray(len) == [n \in 1..len |-> 0]
GeoAttributes ==
    UNION {[1..n -> {GeoArray(len) : len \in 0..MaxAttrLen}] : n \in 0..MaxAttrs}
GeoIndexBuffers == {GeoArray(len) : len \in 0..MaxAttrLen}

GeoInit ==
    /\ SceneInit
    /\ ng = NgIdle
    /\ geo = GeoIdle
    /\ LsysVarsIdle

GeoPlaneNew(rows, cols) ==
    /\ geo = GeoIdle
    /\ geo' = [op |-> "plane", rows |-> rows, cols |-> cols, f |-> "none",
               geometry |-> PlaneGeometryNew(rows, cols, DefaultColor)]
    /\ UNCHANGED <<sceneVars, ng, lsysVars>>

GeoWithDisplacement(rows, cols, f) ==
    /\ geo = GeoIdle
    /\ geo' = [op |-> "plane", rows |-> rows, cols |-> cols, f |-> f,
               geometry |-> WithDisplacement(rows, cols, DefaultColor, f)]
    /\ UNCHANGED <<sceneVars, ng, lsysVars>>

GeoBezierNew(parameters, rows, cols) ==
    /\ geo = GeoIdle
    /\ geo' = [op |-> "bezier", parameters |-> parameters, rows |-> rows, cols |-> cols,
               geometry |-> BezierGeometryTessellate(parameters, rows, cols)]
    /\ UNCHANGED <<sceneVars, ng, lsysVars>>

GeoSphereNew(slices, tiles) ==
    /\ geo = GeoIdle
    /\ geo' = [op |-> "sphere", slices |-> slices, tiles |-> tiles,
               geometry |-> SphereGeometryNew(slices, tiles, DefaultColor)]
    /\ UNCHANGED <<sceneVars, ng, lsysVars>>

GeoLineNew ==
    /\ geo = GeoIdle
    /\ geo' = [op |-> "line", geometry |-> LineGeometryNew]
    /\ UNCHANGED <<sceneVars, ng, lsysVars>>

GeoAddSegment(segment) ==
    /\ geo.op = "line"
    /\ Len(geo.geometry.indices) < 2 * MaxSegments
    /\ geo' = [geo EXCEPT !.geometry = AddSegment(@, segment[1], segment[2], DefaultColor, 1)]
    /\ UNCHANGED <<sceneVars, ng, lsysVars>>

GeoMeshNew(pt, attributes) ==
    /\ geo = GeoIdle
    /\ geo' = [op |-> "mesh", constructor |-> "new", pt |-> pt,
               attributes |-> attributes, indices |-> <<>>,
               mesh |-> MeshNew(pt, attributes)]
    /\ UNCHANGED <<sceneVars, ng, lsysVars>>

GeoMeshNewIndexed(pt, attributes, indices) ==
    /\ geo = GeoIdle
    /\ geo' = [op |-> "mesh", constructor |-> "new_indexed", pt |-> pt,
               attributes |-> attributes, indices |-> indices,
               mesh |-> MeshNewIndexed(pt, attributes, indices)]
    /\ UNCHANGED <<sceneVars, ng, lsysVars>>

GeoExtendableNew ==
    /\ geo = GeoIdle
    /\ geo' = [op |-> "extendable", geometry |-> ExtendableBasicGeometryNew,
               added |-> {}, lookup |-> None]
    /\ UNCHANGED <<sceneVars, ng, lsysVars>>

GeoAddAttr(type, label) ==
    /\ geo.op = "extendable"
    /\ Len(geo.geometry.dynamic) < MaxAttrs
    /\ geo' = [geo EXCEPT !.geometry = AddAttr(@, type, label),
                          !.added = @ \cup {<<type, label>>},
                          !.lookup = None]
    /\ UNCHANGED <<sceneVars, ng, lsysVars>>

GeoAttrByLabel(type, label) ==
    /\ geo.op = "extendable"
    /\ geo' = [geo EXCEPT !.lookup =
                   Some([type |-> type, label |-> label,
                         out |-> AttrByLabel(geo.geometry, type, label)])]
    /\ UNCHANGED <<sceneVars, ng, lsysVars>>

GeoPatchEvaluate(parameters, u, v) ==
    /\ geo = GeoIdle
    /\ u[1] <= u[2] /\ v[1] <= v[2]
    /\ geo' = [op |-> "evaluate", parameters |-> parameters, u |-> u, v |-> v,
               out |-> PatchEvaluate(parameters, u, v)]
    /\ UNCHANGED <<sceneVars, ng, lsysVars>>

GeoTessellate ==
    \E rows \in GeoGrid, cols \in GeoGrid :
        \/ GeoPlaneNew(rows, cols)
        \/ \E f \in Displacements : GeoWithDisplacement(rows, cols, f)
        \/ \E parameters \in GeoPatches : GeoBezierNew(parameters, rows, cols)
        \/ GeoSphereNew(rows, cols)
GeoLine == GeoLineNew \/ \E segment \in GeoSegments : GeoAddSegment(segment)
GeoMesh ==
    \E pt \in {"Triangles", "Lines"}, attributes \in GeoAttributes :
        \/ GeoMeshNew(pt, attributes)
        \/ \E indices \in GeoIndexBuffers : GeoMeshNewIndexed(pt, attributes, indices)
GeoExtendable ==
    \/ GeoExtendableNew
    \/ \E type \in GeoTypes, label \in GeoLabels :
           GeoAddAttr(type, label) \/ GeoAttrByLabel(type, label)
\* ---- the matrix form of evaluate (data/patches.rs)
\* the Bezier basis matrix Mb, row by row
Mb == <<<<-1, 3, -3, 1>>,
        <<3, -6, 3, 0>>,
        <<-3, 3, 0, 0>>,
        <<1, 0, 0, 0>>>>

\* the power vector [t^3, t^2, t, 1] of t = a / b, as numerators over b^3
PowerVector(t) ==
    LET a == t[1]
        b == t[2]
    IN  <<Cube(a), a * a * b, a * b * b, Cube(b)>>

\* a 1x4 row times a 4x4 matrix
RowTimesMatrix(row, m) ==
    [c \in 1..4 |-> row[1] * m[1][c] + row[2] * m[2][c] + row[3] * m[3][c] + row[4] * m[4][c]]

\* a 4x4 matrix times a 4x1 column
MatrixTimesColumn(m, col) ==
    [r \in 1..4 |-> m[r][1] * col[1] + m[r][2] * col[2] + m[r][3] * col[3] + m[r][4] * col[4]]

Transpose(m) == [r \in 1..4 |-> [c \in 1..4 |-> m[c][r]]]

\* from_row_slice: row r holds coordinate `coord` of the control points of
\* curve r
GeometryMatrix(patch, coord) ==
    [r \in 1..4 |-> [c \in 1..4 |-> patch.curves[r].control_points[c][coord]]]

\* U * Mb * GB * Mbt * Vt
MatrixProduct(gb, u, v) ==
    LET left == RowTimesMatrix(RowTimesMatrix(PowerVector(u), Mb), gb)
        right == MatrixTimesColumn(Transpose(Mb), PowerVector(v))
    IN  left[1] * right[1] + left[2] * right[2] + left[3] * right[3] + left[4] * right[4]

\* BezierPatchParameters::evaluate of data/patches.rs: GBx and GBz are both
\* filled from the z coordinates; numerators over PatchDenom(u, v)
MatrixEvaluate(patch, u, v) ==
    LET GBx == GeometryMatrix(patch, 3)
        GBy == GeometryMatrix(patch, 2)
        GBz == GeometryMatrix(patch, 3)
    IN  <<MatrixProduct(GBx, u, v), MatrixProduct(GBy, u, v), MatrixProduct(GBz, u, v)>>

GeoMatrixEvaluate(parameters, u, v) ==
    /\ geo = GeoIdle
    /\ u[1] <= u[2] /\ v[1] <= v[2]
    /\ geo' = [op |-> "matrix_evaluate", parameters |-> parameters, u |-> u, v |-> v,
               out |-> MatrixEvaluate(parameters, u, v)]
    /\ UNCHANGED <<sceneVars, ng, lsysVars>>

GeoEvaluate ==
    \E parameters \in GeoPatches, u \in GeoParams, v \in GeoParams :
        \/ GeoPatchEvaluate(parameters, u, v)
        \/ GeoMatrixEvaluate(parameters, u, v)

GeoNext == GeoTessellate \/ GeoLine \/ GeoMesh \/ GeoExtendable \/ GeoEvaluate

SpecGeometry == GeoInit /\ [][GeoNext]_vars

\* ------------------------------------ properties of the normal generator
FacesContaining(faces, v) ==
    {n \in 1..Len(faces) : v \in {faces[n][1], faces[n][2], faces[n][3]}}
RECURSIVE SumFaceNormals(_, _)
SumFaceNormals(face_normals, S) ==
    IF S = {} THEN FZeros
    ELSE LET n == CHOOSE m \in S : TRUE
         IN  FAdd(face_normals[n], SumFaceNormals(face_normals, S \ {n}))

\* C10: in both generators the accumulator of a vertex, before the final
\* normalisation, is the sum of the unit normals of all faces that contain
\* the vertex, and for the identity index sequence the indexed generator
\* yields the normals of the non-indexed one.
C10_NormalsAccumulate ==
    (ng.pc = "done" /\ ng.out.result = "ok") =>
        /\ \A v \in 0..(Len(ng.positions) - 1) :
               At(ng.out.accumulators, v) =
                   SumFaceNormals(ng.out.face_normals, FacesContaining(ng.out.faces, v))
        /\ (/\ ng.variant = "indexed"
            /\ ng.indices = Identity(Len(ng.positions))
            /\ GenerateNormals(ng.pt, ng.positions).result = "ok") =>
               ng.out.normals = GenerateNormals(ng.pt, ng.positions).normals

\* element i (0-based) of the sequence a decomposition runs over
NgEntry(i) == At(ng.indices, i)
NgWellFormed ==
    /\ Len(ng.indices) >= 3
    /\ ng.pt \in {"TriangleFan", "TriangleStrip", "Triangles"}
    /\ ng.pt = "Triangles" => Len(ng.indices) % 3 = 0

\* C11: for a sequence s of N >= 3 vertices or index entries the faces are,
\* in order, (s[0], s[i-1], s[i]) for i = 2..N-1 for a fan, (s[i-2], s[i-1],
\* s[i]) for i = 2..N-1 for a strip and, for a list with N a multiple of 3,
\* the N/3 triples (s[3f], s[3f+1], s[3f+2]); calculate_faces runs over
\* s = 0..N-1 and calculate_indexed_faces over the index sequence.
C11_FaceDecomposition ==
    (ng.pc = "done" /\ NgWellFormed) =>
        /\ ng.out.result = "ok"
        /\ Len(ng.out.faces) = IF ng.pt = "Triangles" THEN Len(ng.indices) \div 3
                               ELSE Len(ng.indices) - 2
        /\ \A f \in 0..(Len(ng.out.faces) - 1) :
               At(ng.out.faces, f) =
                   CASE ng.pt = "TriangleFan" -> <<NgEntry(0), NgEntry(f + 1), NgEntry(f + 2)>>
                     [] ng.pt = "TriangleStrip" -> <<NgEntry(f), NgEntry(f + 1), NgEntry(f + 2)>>
                     [] ng.pt = "Triangles" ->
                            <<NgEntry(3 * f), NgEntry(3 * f + 1), NgEntry(3 * f + 2)>>

\* an indexed fan over a reversed index sequence was decomposed into at least
\* two faces
C11_Witness ==
    /\ ng.pc = "done" /\ NgWellFormed
    /\ ng.variant = "indexed" /\ ng.pt = "TriangleFan"
    /\ ng.indices # Identity(Len(ng.positions))
    /\ Len(ng.out.faces) >= 2

\* C12: both generators abort, returning no normals, when given fewer than
\* three vertices or index entries, a triangle list whose length is not a
\* multiple of 3, or a topology other than list, strip or fan.
C12_MalformedInputAborts ==
    (ng.pc = "done" /\ ~NgWellFormed) => ng.out.result = "panic"

\* ------------------------------------------------ properties of the geometry
\* the geometry in `geo` is a tessellation whose normals were regenerated
Tessellated ==
    \/ geo.op = "bezier"
    \/ geo.op = "plane" /\ geo.f # "none"
IsUnit(normal) == ~normal.nan /\ VDot(normal.v, normal.v) = 1

\* C13: every vertex of a tessellated plane or Bezier geometry with rows >= 1,
\* cols >= 1 and distinct, non-collinear samples has a unit normal after the
\* indexed triangle-strip regeneration; no vertex is left with the normalised
\* zero vector of a degenerate stitch face.
C13_TessellatedNormalsUnit ==
    Tessellated =>
        \A n \in 1..Len(geo.geometry.normals) : IsUnit(geo.geometry.normals[n])

\* the attribute arrays handed to the mesh constructor have one common length
EqualLengths ==
    \A n, m \in 1..Len(geo.attributes) : Len(geo.attributes[n]) = Len(geo.attributes[m])

\* C14: Mesh::new succeeds only for a geometry with at least one attribute
\* array whose arrays all have the same length n, and then the vertex count
\* of the mesh is n; otherwise it fails with the message "attribute buffer
\* sizes inconsistent".
C14_MeshNewChecksLengths ==
    (geo.op = "mesh" /\ geo.constructor = "new") =>
        IF Len(geo.attributes) >= 1 /\ EqualLengths
        THEN /\ geo.mesh.result = "ok"
             /\ geo.mesh.num_vertices = Len(geo.attributes[1])
        ELSE /\ geo.mesh.result = "panic"
             /\ geo.mesh.message = "Geometry attribute buffer sizes inconsistent"

\* Mesh::new returned a mesh of two vertices for three arrays of two entries
C14_Witness ==
    /\ geo.op = "mesh" /\ geo.constructor = "new"
    /\ Len(geo.attributes) = 3 /\ EqualLengths
    /\ geo.mesh.result = "ok" /\ geo.mesh.num_vertices = 2

\* C15: Mesh::new_indexed fails when the attribute arrays differ in length, so
\* every mesh that either constructor returns was built from arrays of equal
\* length.
C15_EveryMeshEqualLengths ==
    (geo.op = "mesh" /\ geo.mesh.result = "ok") => EqualLengths

\* every index of the geometry in `geo` addresses a vertex and its attribute
\* arrays have one common length
IndicesInRange ==
    \A n \in 1..Len(geo.geometry.indices) :
        /\ geo.geometry.indices[n] >= 0
        /\ geo.geometry.indices[n] < Len(geo.geometry.positions)
AttributesAligned ==
    \A n \in 1..3 :
        Len(RetrieveAttributes(geo.op, geo.geometry)[n]) = Len(geo.geometry.positions)

\* C16: for PlaneGeometry::new(rows >= 1, cols >= 1), SphereGeometry::new(
\* slices >= 1, tiles >= 1) and a LineGeometry after any sequence of
\* add_segment calls, every entry of the index buffer is less than the vertex
\* count and all attribute arrays have the same length.
C16_IndicesAddressVertices ==
    geo.op \in {"plane", "sphere", "line"} => IndicesInRange /\ AttributesAligned

\* a line geometry of two segments whose last index is its last vertex
C16_Witness ==
    /\ geo.op = "line"
    /\ Len(geo.geometry.indices) = 4
    /\ geo.geometry.indices[4] = Len(geo.geometry.positions) - 1

\* C17: attr_by_label and attr_by_label_mut return an attribute array exactly
\* when an attribute with the requested label and element type has been
\* added, and fail when the label is absent or the stored type differs.
C17_LookupFindsAddedAttribute ==
    (geo.op = "extendable" /\ geo.lookup # None) =>
        LET lookup == geo.lookup[1]
        IN  lookup.out.result = "ok" <=> <<lookup.type, lookup.label>> \in geo.added

\* the parameter value is 0 or 1
IsZero(u) == u[1] = 0
IsOne(u) == u[1] = u[2]
\* the evaluated point `out`, a triple of numerators over PatchDenom(u, v),
\* is the control point `point`
SamePoint(out, u, v, point) == out = VScale(point, PatchDenom(u, v) \div CoordDenom)

\* C18: BezierPatchParameters::evaluate returns, at (u, v) = (0,0), (1,0),
\* (0,1) and (1,1), the corner control points curves[0].control_points[0],
\* curves[0].control_points[3], curves[3].control_points[0] and
\* curves[3].control_points[3].
C18_CornersInterpolated ==
    (/\ geo.op = "evaluate"
     /\ IsZero(geo.u) \/ IsOne(geo.u)
     /\ IsZero(geo.v) \/ IsOne(geo.v)) =>
        SamePoint(geo.out, geo.u, geo.v,
                  geo.parameters.curves[IF IsZero(geo.v) THEN 1 ELSE 4]
                      .control_points[IF IsZero(geo.u) THEN 1 ELSE 4])

\* the default patch was evaluated at (u, v) = (1, 0), with u written as 2/2
C18_Witness ==
    /\ geo.op = "evaluate"
    /\ geo.parameters = BezierPatchDefault
    /\ geo.u = Param(2, 2) /\ geo.v = Param(0, 1)
    /\ geo.out = <<32, 0, 0>>

\* C19: BezierGeometry::new(patch, rows, cols) produces (rows+1)*(cols+1)
\* vertices in row-major order: the position at index y*(cols+1)+x is
\* patch.evaluate(x / cols, y / rows).
C19_RowMajorSamples ==
    geo.op = "bezier" =>
        /\ Len(geo.geometry.positions) = (geo.rows + 1) * (geo.cols + 1)
        /\ geo.geometry.denom = PatchDenom(Param(0, geo.cols), Param(0, geo.rows))
        /\ \A x \in 0..geo.cols, y \in 0..geo.rows :
               At(geo.geometry.positions, y * (geo.cols + 1) + x) =
                   PatchEvaluate(geo.parameters, Param(x, geo.cols), Param(y, geo.rows))

\* the default patch tessellated into 2 rows and 1 column: the vertex at
\* index 3 is the sample (1, 0.5, 0) of (u, v) = (1, 1/2)
C19_Witness ==
    /\ geo.op = "bezier"
    /\ geo.parameters = BezierPatchDefault
    /\ geo.rows = 2 /\ geo.cols = 1
    /\ At(geo.geometry.positions, 3) = <<32, 16, 0>>
    /\ geo.geometry.denom = 32

\* C20: in BezierGeometry::new and PlaneGeometry::with_displacement the
\* normals are regenerated after the last position write, so the stored
\* normals are those of the final, displaced positions and never those of the
\* flat plane the tessellation started from.
C20_NormalsOfFinalPositions ==
    Tessellated =>
        geo.geometry.normals =
            GenerateIndexedNormals("TriangleStrip", geo.geometry.positions,
                                   geo.geometry.indices).normals

\* a plane displaced by f(u, v) = (v, u, 0): its first normal is (0, 0, 1),
\* where the flat plane has (0, 0, -1) when regenerated and (0, 1, 0) when
\* constructed
C20_Witness ==
    /\ geo.op = "plane" /\ geo.f = "yx"
    /\ geo.rows = 1 /\ geo.cols = 1
    /\ geo.geometry.normals[1] = FVec(<<0, 0, 1>>)
    /\ RegenerateNormals(PlaneGeometryNew(1, 1, DefaultColor)).normals[1] = FVec(<<0, 0, -1>>)

\* ------------------------------------ further properties of the editor
\* C21: the shared model is changed only by Save and Save and Exit, which set
\* it to a copy of the working copy; drags, GUI edits of points and colours,
\* adding, cloning and removing patches, and Cancel leave it unchanged.
C21_ModelChangedOnlyBySave ==
    [][/\ model' # model => (GuiSave \/ GuiSaveAndExit)
       /\ (GuiSave \/ GuiSaveAndExit) => model' = working_copy]_vars

\* a patch was added and recoloured and the result saved: the shared model
\* holds two patches and the picked colour
C21_Witness ==
    /\ model = working_copy
    /\ Len(model.patches) = 2
    /\ \E i \in PatchIdx : At(model.patches, i).color \in GuiColors

\* the entries of a per-patch vector other than the one of patch i are the
\* same after the step as before it
OthersUntouched(before, after, i) ==
    /\ Len(after) = Len(before)
    /\ \A n \in 0..(Len(before) - 1) : n # i => At(after, n) = At(before, n)

\* C22: a drag move rebuilds only meshes of the patch that owns the dragged
\* point; the surface meshes, control-point models and control-curve meshes
\* of every other patch are left untouched by the move.
C22_DragMoveTouchesOwnerOnly ==
    [][\A pos \in CursorPositions :
          (/\ in_drag /\ IsSome(dragged_point)
           /\ InViewport(pos[1], pos[2])
           /\ HandleCursorPos(pos[1], pos[2])) =>
              /\ \A n \in 1..Len(log_create_mesh') : log_create_mesh'[n] = DraggedPatch
              /\ OthersUntouched(meshes, meshes', DraggedPatch)
              /\ OthersUntouched(control_point_models, control_point_models', DraggedPatch)
              /\ OthersUntouched(control_curve_meshes, control_curve_meshes', DraggedPatch)
              /\ OthersUntouched(normal_vector_vis, normal_vector_vis', DraggedPatch)]_vars

\* a point of the second of two patches has been moved: the control meshes
\* follow the working copy and only the surface of that patch is behind
C22_Witness ==
    /\ status = "running" /\ in_drag
    /\ Len(working_copy.patches) = 2
    /\ DraggedPatch = 1
    /\ StalePatches = {1}
    /\ ControlMeshesCurrent

\* C23: whenever in_drag is true, dragged_point = (i, j, k) names an existing
\* control point of a currently active patch, also when patches are removed
\* or deactivated through the GUI while the drag persists; hence no drag move
\* and no viewport exit indexes a missing patch.
C23_DraggedPointValid ==
    (status = "running" /\ in_drag) =>
        /\ IsSome(dragged_point)
        /\ Unwrap(dragged_point) \in PointIdx
        /\ At(active, DraggedPatch)

\* ---------------------------------------------- the events and the button
\* SpecInput runs handle_event together with the mouse button itself. The
\* window reports a press when the primary button goes down and a release
\* when it comes up; handle_event is called with the event unless the GUI
\* grabs the input (handle_event's contract), and then the scene does nothing
\* for it. Spec leaves the button out: there button1_down stays FALSE.
InputButton1Press ==
    /\ ~button1_down
    /\ button1_down' = TRUE
    /\ \E pos \in PressPositions, d \in Depths : HandleButton1Press(pos[1], pos[2], d)
InputButton1Release ==
    /\ button1_down
    /\ button1_down' = FALSE
    /\ HandleButton1Release
InputCursorPos ==
    /\ UNCHANGED button1_down
    /\ \E pos \in CursorPositions : HandleCursorPos(pos[1], pos[2])
InputOther ==
    /\ UNCHANGED button1_down
    /\ \E ev \in OtherEvents : HandleOtherEvent(ev)
GrabbedButton1Press ==
    /\ Running
    /\ ~button1_down
    /\ button1_down' = TRUE
    /\ steps' = steps + 1
    /\ log_create_mesh' = <<>> /\ log_camera_event' = FALSE /\ log_read_pixels' = 0
    /\ UNCHANGED <<model, working_copy, camera, meshVars, dragVars, guiVars, status, ng, geo, lsysVars>>
GrabbedButton1Release ==
    /\ Running
    /\ button1_down
    /\ button1_down' = FALSE
    /\ steps' = steps + 1
    /\ log_create_mesh' = <<>> /\ log_camera_event' = FALSE /\ log_read_pixels' = 0
    /\ UNCHANGED <<model, working_copy, camera, meshVars, dragVars, guiVars, status, ng, geo, lsysVars>>

InputNext ==
    \/ InputButton1Press
    \/ InputButton1Release
    \/ InputCursorPos
    \/ InputOther
    \/ GrabbedButton1Press
    \/ GrabbedButton1Release

SpecInput == Init /\ [][InputNext]_vars

\* C24: in_drag is true only while the primary button is held: a drag started
\* by a press has ended once the button has been released, also when the
\* release never reaches handle_event because the GUI grabbed it, and no
\* cursor move after the release changes a control point.
C24_DragOnlyWhileButtonHeld ==
    status = "running" => (in_drag => button1_down)

\* the five per-patch vectors have the length of working_copy.patches
VectorsMatchPatches ==
    /\ Len(meshes) = Len(working_copy.patches)
    /\ Len(control_point_models) = Len(working_copy.patches)
    /\ Len(control_curve_meshes) = Len(working_copy.patches)
    /\ Len(active) = Len(working_copy.patches)
    /\ draw_normal_vectors => Len(normal_vector_vis) = Len(working_copy.patches)

\* the lengths alone are kept by every call that returns
VectorsMatchPatchesWhileRunning == status # "panicked" => VectorsMatchPatches

\* C25: after construction and after every do_gui or handle_event call the
\* vectors meshes, control_point_models, control_curve_meshes and active have
\* the length of working_copy.patches, and normal_vector_vis has that length
\* whenever draw_normal_vectors is set, so that refresh_mesh_for, which the
\* cursor handler calls with the dragged patch, never indexes out of bounds.
C25_VectorsMatchPatches ==
    status # "panicked" =>
        /\ VectorsMatchPatches
        /\ (in_drag /\ IsSome(dragged_point)) =>
               ~RefreshMeshForPanics(working_copy.patches, DraggedPatch)

\* =========================================================================
\* The bezier models of the L-system scene and their mesh manager
\* =========================================================================
MaxModels == 2          \* bezier models in lsystem_params
MaxLsysSteps == 8       \* steps of the L-system scene and of the editor on top
Symbols == {"a", "b"}   \* the characters typed into a symbol field

RedPatch == [BezierPatchDefault EXCEPT !.color = <<10, 0, 0>>]
\* patch lists an edit session can save
SavedPatchLists == {<<>>, <<RedPatch>>, <<RedPatch, BezierPatchDefault>>}

\* ------------------------------------------------------ BezierMeshManager
\* mesh_map: HashMap<char, Vec<Rc<Mesh>>>, None where the key is absent
BezierMeshManagerNew == [c \in Symbols |-> None]

has_meshes(mesh_map, identifier) == IsSome(mesh_map[identifier])

create_meshes(parameters) ==
    [n \in 1..Len(parameters.patches) |-> CreateMesh(parameters.patches[n])]

\* variant of update_meshes that keeps an entry that already exists
update_meshes_keep_existing(mesh_map, parameters) ==
    IF IsSome(parameters.symbol) /\ ~has_meshes(mesh_map, Unwrap(parameters.symbol))
    THEN [mesh_map EXCEPT ![Unwrap(parameters.symbol)] = Some(create_meshes(parameters))]
    ELSE mesh_map

update_meshes(mesh_map, parameters) ==
    IF IsSome(parameters.symbol)
    THEN [mesh_map EXCEPT ![Unwrap(parameters.symbol)] = Some(create_meshes(parameters))]
    ELSE mesh_map

remove_meshes(mesh_map, identifier) ==
    IF has_meshes(mesh_map, identifier)
    THEN [mesh_map EXCEPT ![identifier] = None]
    ELSE mesh_map

rename_meshes(mesh_map, old, new) ==
    IF has_meshes(mesh_map, old)
    THEN [[mesh_map EXCEPT ![old] = None] EXCEPT ![new] = mesh_map[old]]
    ELSE mesh_map

RECURSIVE from_parameters_loop(_, _, _)
from_parameters_loop(mesh_map, models, n) ==
    IF n > Len(models) THEN mesh_map
    ELSE from_parameters_loop(update_meshes(mesh_map, models[n]), models, n + 1)

from_parameters(models) == from_parameters_loop(BezierMeshManagerNew, models, 1)

\* retrieve_meshes unwraps the map lookup
retrieve_meshes_panics(mesh_map, identifier) == ~has_meshes(mesh_map, identifier)

\* ------------------------------------------------------------ LSystemScene
\* lsys.top is the scene on top of the scene stack: the L-system scene is
\* evaluated only while no editor runs on top of it.  lsys.phase is its
\* position in the frame: do_logic runs before the GUI pass.
InitialBezierModels ==
    {<<>>, <<[symbol |-> Some("a"), patches |-> <<BezierPatchDefault>>]>>}

LsysInit ==
    /\ SceneInit /\ ng = NgIdle /\ geo = GeoIdle
    /\ mgr = LsysIdle /\ pal = LsysIdle
    /\ \E models \in InitialBezierModels :
          lsys = [pc |-> "scene", top |-> "lsystem", phase |-> "logic",
                  status |-> "running", steps |-> 0,
                  bezier_models |-> models,
                  bezier_manager |-> from_parameters(models),
                  model_to_refresh |-> None,
                  cell |-> None,
                  saved |-> <<>>]

LsysRunning(top) ==
    /\ lsys.pc = "scene" /\ lsys.status = "running" /\ lsys.top = top
    /\ lsys.steps < MaxLsysSteps

\* the frame of the L-system scene: logic first, then the GUI pass
LogicTurn == LsysRunning("lsystem") /\ lsys.phase = "logic"
GuiTurn == LsysRunning("lsystem") /\ lsys.phase = "gui"

ModelIdx == 0..(Len(lsys.bezier_models) - 1)

LsysStep(next) ==
    /\ lsys' = [next EXCEPT !.steps = lsys.steps + 1]
    /\ UNCHANGED <<sceneVars, ng, geo, mgr, pal>>

\* the GUI pass ends the frame
GuiStep(next) == LsysStep([next EXCEPT !.phase = "logic"])

\* a GUI pass in which no widget of the model list is used
GuiNoOp == GuiTurn /\ GuiStep(lsys)

\* the symbol field of model i was edited to symbol (None: the field is empty)
GuiSymbolInput(i, symbol) ==
    /\ GuiTurn
    /\ i \in ModelIdx
    /\ LET old_symbol == At(lsys.bezier_models, i).symbol
           edited == [At(lsys.bezier_models, i) EXCEPT !.symbol = symbol]
           manager == lsys.bezier_manager
       IN  GuiStep([lsys EXCEPT
               !.bezier_models = [lsys.bezier_models EXCEPT ![i + 1] = edited],
               !.bezier_manager =
                   IF IsSome(old_symbol)
                   THEN IF IsSome(symbol)
                        THEN rename_meshes(manager, Unwrap(old_symbol), Unwrap(symbol))
                        ELSE remove_meshes(manager, Unwrap(old_symbol))
                   ELSE IF IsSome(symbol)
                        THEN update_meshes(manager, edited)
                        ELSE manager])

\* edit_bezier_model(index): the cell holds a clone of the model
edit_bezier_model(index) ==
    [lsys EXCEPT !.model_to_refresh = Some(index),
                 !.cell = Some(At(lsys.bezier_models, index)),
                 !.saved = <<At(lsys.bezier_models, index)>>]

\* "edit": the editor is pushed on top with the cell of edit_bezier_model(i)
GuiEditModel(i) ==
    /\ GuiTurn
    /\ i \in ModelIdx
    /\ GuiStep([edit_bezier_model(i) EXCEPT !.top = "editor"])

\* the first model after the removal that carries the symbol id, if any
FirstWithSymbol(models, id) ==
    LET hits == {n \in 1..Len(models) : models[n].symbol = Some(id)}
    IN  IF hits = {} THEN None ELSE Some(models[CHOOSE n \in hits : \A m \in hits : n <= m])

\* "-": the model is removed, and so are the meshes of its symbol, which are
\* rebuilt from another model with the same symbol
GuiDeleteModel(i) ==
    /\ GuiTurn
    /\ i \in ModelIdx
    /\ LET id == At(lsys.bezier_models, i).symbol
           remaining == RemoveAt(lsys.bezier_models, i)
           removed == remove_meshes(lsys.bezier_manager, Unwrap(id))
           other == FirstWithSymbol(remaining, Unwrap(id))
       IN  GuiStep([lsys EXCEPT
               !.bezier_models = remaining,
               !.bezier_manager =
                   IF IsSome(id)
                   THEN IF IsSome(other) THEN update_meshes(removed, Unwrap(other)) ELSE removed
                   ELSE lsys.bezier_manager])

\* "+": a default model, which has no symbol, is appended
GuiAddModel ==
    /\ GuiTurn
    /\ Len(lsys.bezier_models) < MaxModels
    /\ GuiStep([lsys EXCEPT !.bezier_models = Append(lsys.bezier_models, BezierModelDefault)])

\* the editor's Save: the cell receives a copy of the working copy
EditorSaved(patches) ==
    LET working == [Unwrap(lsys.cell) EXCEPT !.patches = patches]
    IN  [lsys EXCEPT !.cell = Some(working), !.saved = Append(lsys.saved, working)]

EditorSave ==
    /\ LsysRunning("editor")
    /\ \E patches \in SavedPatchLists : LsysStep(EditorSaved(patches))

EditorSaveAndExit ==
    /\ LsysRunning("editor")
    /\ \E patches \in SavedPatchLists :
          LsysStep([EditorSaved(patches) EXCEPT !.top = "lsystem"])

EditorCancel ==
    /\ LsysRunning("editor")
    /\ LsysStep([lsys EXCEPT !.top = "lsystem"])

\* variant of do_logic that keeps model_to_refresh
do_logic_keeps_request ==
    IF IsSome(lsys.model_to_refresh)
    THEN LET i == Unwrap(lsys.model_to_refresh)
         IN  IF ~InRange(lsys.bezier_models, i)
             THEN [lsys EXCEPT !.status = "panicked"]
             ELSE [lsys EXCEPT !.bezier_models[i + 1] = Unwrap(lsys.cell)]
    ELSE lsys

\* do_logic; refresh_bezier_models has an empty body
do_logic ==
    IF IsSome(lsys.model_to_refresh)
    THEN LET i == Unwrap(lsys.model_to_refresh)
         IN  IF ~InRange(lsys.bezier_models, i)
             THEN [lsys EXCEPT !.status = "panicked"]
             ELSE [lsys EXCEPT !.bezier_models[i + 1] = Unwrap(lsys.cell),
                               !.model_to_refresh = None]
    ELSE lsys

DoLogic ==
    /\ LogicTurn
    /\ LsysStep([do_logic EXCEPT !.phase = "gui"])

LsysNext ==
    \/ \E i \in 0..(MaxModels - 1), symbol \in {None} \cup {Some(c) : c \in Symbols} :
          GuiSymbolInput(i, symbol)
    \/ \E i \in 0..(MaxModels - 1) : GuiEditModel(i)
    \/ \E i \in 0..(MaxModels - 1) : GuiDeleteModel(i)
    \/ GuiAddModel
    \/ GuiNoOp
    \/ EditorSave
    \/ EditorSaveAndExit
    \/ EditorCancel
    \/ DoLogic

SpecLsys == LsysInit /\ [][LsysNext]_vars

\* ------------------------------------------- colour palette and the meshes
MaxPalette == 2         \* entries of color_palette and values of color_palette_size
MaxPalSteps == 3        \* handler calls on the palette model
\* color_palette_size is unsigned: 0 - 1 wraps to the largest value, which is
\* represented by the largest integer available here
WrappedMinusOne == 2147483647

PaletteColors == {<<10, 10, 10>>, <<10, 0, 0>>}
Palettes == UNION {[1..n -> {<<10, 10, 10>>}] : n \in 0..MaxPalette}
PaletteSizes == 0..MaxPalette

\* interpret(): the colour indices of the segments and polygons stay below
\* the engine's color_palette_size (index 0 when that is 0)
EngineColors(size) == 0..(IF size = 0 THEN 0 ELSE size - 1)
EngineOutputs(size) ==
    [line_segments : {<<>>} \cup {<<c>> : c \in EngineColors(size)},
     polygons : {<<>>} \cup {<<c>> : c \in EngineColors(size)}]

\* the colour index of retrieve_line_mesh: 0 - 1 underflows
ClampedColorIndex(color, size) ==
    IF color >= size
    THEN [index |-> IF size = 0 THEN WrappedMinusOne ELSE size - 1, underflow |-> size = 0]
    ELSE [index |-> color, underflow |-> FALSE]

\* retrieve_line_mesh for one segment: the palette index read (None when the
\* palette is empty) or a panic
LineColorLookup(color, size, palette, overflow_checks) ==
    LET clamped == ClampedColorIndex(color, size)
    IN  IF clamped.underflow /\ overflow_checks
        THEN [panic |-> TRUE, underflow |-> TRUE, read |-> None]
        ELSE IF Len(palette) = 0
        THEN [panic |-> FALSE, underflow |-> clamped.underflow, read |-> None]
        ELSE [panic |-> clamped.index >= Len(palette), underflow |-> clamped.underflow,
              read |-> Some(clamped.index)]

\* retrieve_polygon_meshes for one polygon
PolygonColorLookup(color, palette) ==
    IF Len(palette) > 0
    THEN [panic |-> color >= Len(palette), underflow |-> FALSE, read |-> Some(color)]
    ELSE [panic |-> FALSE, underflow |-> FALSE, read |-> None]

\* refresh_meshes: retrieve_line_mesh and retrieve_polygon_meshes
RetrieveMeshes(p) ==
    LET lookups ==
            [n \in 1..Len(p.line_segments) |->
                LineColorLookup(p.line_segments[n], p.engine_size, p.color_palette,
                                p.overflow_checks)]
            \o [n \in 1..Len(p.polygons) |-> PolygonColorLookup(p.polygons[n], p.color_palette)]
    IN  [p EXCEPT !.lookups = lookups,
                  !.status = IF \E n \in 1..Len(lookups) : lookups[n].panic
                             THEN "panicked" ELSE "running"]

\* draw_lsystem: interpret, then the meshes are retrieved
DrawLSystem(p, output) ==
    RetrieveMeshes([p EXCEPT !.line_segments = output.line_segments,
                             !.polygons = output.polygons])

\* the parameters handed to LSystemScene::new and the build profile
PalInit ==
    /\ SceneInit /\ ng = NgIdle /\ geo = GeoIdle
    /\ lsys = LsysIdle /\ mgr = LsysIdle
    /\ \E palette \in Palettes, size \in PaletteSizes, checks \in BOOLEAN :
          pal = [pc |-> "params", color_palette |-> palette, params_size |-> size,
                 engine_size |-> 0, overflow_checks |-> checks,
                 line_segments |-> <<>>, polygons |-> <<>>, lookups |-> <<>>,
                 status |-> "running", steps |-> 0]

PalRunning == pal.pc = "scene" /\ pal.status = "running" /\ pal.steps < MaxPalSteps

PalStep(next) ==
    /\ pal' = [next EXCEPT !.steps = pal.steps + 1]
    /\ UNCHANGED <<sceneVars, ng, geo, lsys, mgr>>

\* LSystemScene::new: setup_lsystem, interpret, the meshes
PalSceneNew ==
    /\ pal.pc = "params"
    /\ \E output \in EngineOutputs(pal.params_size) :
          pal' = DrawLSystem([pal EXCEPT !.pc = "scene", !.engine_size = pal.params_size],
                             output)
    /\ UNCHANGED <<sceneVars, ng, geo, lsys, mgr>>

\* load(json) and force_refresh_all: palette and color_palette_size are
\* separate fields of the file
PalLoad(palette, size) ==
    /\ PalRunning
    /\ \E output \in EngineOutputs(size) :
          PalStep(DrawLSystem([pal EXCEPT !.color_palette = palette, !.params_size = size,
                                          !.engine_size = size], output))

\* do_colors: entry i was edited; refresh_color_palette
PalColorEdit(i, color) ==
    /\ PalRunning
    /\ InRange(pal.color_palette, i)
    /\ \E output \in EngineOutputs(pal.engine_size) :
          PalStep(DrawLSystem([pal EXCEPT !.color_palette[i + 1] = color,
                                          !.params_size = Len(pal.color_palette)], output))

\* a drawing parameter was edited; refresh_drawing_parameters with
\* auto_refresh set
PalDrawingParameterEdit ==
    /\ PalRunning
    /\ \E output \in EngineOutputs(pal.params_size) :
          PalStep(DrawLSystem([pal EXCEPT !.engine_size = pal.params_size], output))

\* "Show normal vectors": refresh_meshes
PalShowNormals ==
    /\ PalRunning
    /\ PalStep(RetrieveMeshes(pal))

PalNext ==
    \/ PalSceneNew
    \/ \E palette \in Palettes, size \in PaletteSizes : PalLoad(palette, size)
    \/ \E i \in 0..(MaxPalette - 1), color \in PaletteColors : PalColorEdit(i, color)
    \/ PalDrawingParameterEdit
    \/ PalShowNormals

SpecPalette == PalInit /\ [][PalNext]_vars


\* ------------------------------------------------- properties of the models
SymbolsInUse == {c \in Symbols : \E n \in 1..Len(lsys.bezier_models) :
                                    lsys.bezier_models[n].symbol = Some(c)}

\* C26: after any sequence of bezier-model operations of do_bezier_models the
\* manager holds meshes for a symbol exactly when some model carries that
\* symbol, so retrieve_meshes never fails for a symbol in use.
C26_ManagerMatchesSymbols ==
    lsys.pc = "scene" =>
        \A c \in Symbols : has_meshes(lsys.bezier_manager, c) <=> c \in SymbolsInUse

\* the same with the direction that retrieve_meshes needs only
RetrieveNeverFails ==
    lsys.pc = "scene" =>
        \A c \in SymbolsInUse : ~retrieve_meshes_panics(lsys.bezier_manager, c)

\* C27: the first do_logic after an edit session started by
\* edit_bezier_model(i) stores the contents of the shared cell (the last value
\* saved in the editor, or the original model) in bezier_models[i] and clears
\* model_to_refresh; a do_logic that finds no request changes nothing, and a
\* request appears only through edit_bezier_model.
C27_DoLogicAppliesCellOnce ==
    [][/\ DoLogic =>
            IF IsSome(lsys.model_to_refresh)
            THEN LET i == Unwrap(lsys.model_to_refresh)
                 IN  /\ lsys'.status = "running"
                     /\ At(lsys'.bezier_models, i) = Unwrap(lsys.cell)
                     /\ At(lsys'.bezier_models, i) = lsys.saved[Len(lsys.saved)]
                     /\ OthersUntouched(lsys.bezier_models, lsys'.bezier_models, i)
                     /\ lsys'.model_to_refresh = None
                     /\ lsys'.bezier_manager = lsys.bezier_manager
            ELSE lsys' = [lsys EXCEPT !.steps = lsys.steps + 1, !.phase = "gui"]
       /\ (lsys.pc = "scene" /\ lsys.model_to_refresh = None
             /\ lsys'.model_to_refresh # None) =>
            \E i \in ModelIdx : GuiEditModel(i)]_vars

\* do_logic has just applied a model that the editor saved with two patches
C27_Witness ==
    /\ lsys.pc = "scene" /\ lsys.top = "lsystem" /\ lsys.phase = "gui"
    /\ lsys.model_to_refresh = None
    /\ Len(lsys.saved) >= 2
    /\ lsys.saved[Len(lsys.saved)].patches = <<RedPatch, BezierPatchDefault>>
    /\ \E i \in ModelIdx : At(lsys.bezier_models, i) = lsys.saved[Len(lsys.saved)]

\* ------------------------------------------- the mesh manager on its own
MaxManagerCalls == 4
ManagerModels == [symbol : {None} \cup {Some(c) : c \in Symbols}, patches : SavedPatchLists]

ManagerInit ==
    /\ SceneInit /\ ng = NgIdle /\ geo = GeoIdle
    /\ lsys = LsysIdle /\ pal = LsysIdle
    /\ mgr = [pc |-> "manager", mesh_map |-> BezierMeshManagerNew, calls |-> 0,
              status |-> "running", retrieved |-> None]

ManagerReady == mgr.pc = "manager" /\ mgr.status = "running" /\ mgr.calls < MaxManagerCalls

ManagerCall(next) ==
    /\ mgr' = [next EXCEPT !.calls = mgr.calls + 1]
    /\ UNCHANGED <<sceneVars, ng, geo, lsys, pal>>

ManagerUpdateMeshes(parameters) ==
    /\ ManagerReady
    /\ ManagerCall([mgr EXCEPT !.mesh_map = update_meshes(mgr.mesh_map, parameters)])

ManagerRemoveMeshes(identifier) ==
    /\ ManagerReady
    /\ ManagerCall([mgr EXCEPT !.mesh_map = remove_meshes(mgr.mesh_map, identifier)])

ManagerRenameMeshes(old, new) ==
    /\ ManagerReady
    /\ ManagerCall([mgr EXCEPT !.mesh_map = rename_meshes(mgr.mesh_map, old, new)])

ManagerRetrieveMeshes(identifier) ==
    /\ ManagerReady
    /\ ManagerCall(IF retrieve_meshes_panics(mgr.mesh_map, identifier)
                   THEN [mgr EXCEPT !.status = "panicked"]
                   ELSE [mgr EXCEPT !.retrieved = mgr.mesh_map[identifier]])

ManagerNext ==
    \/ \E parameters \in ManagerModels : ManagerUpdateMeshes(parameters)
    \/ \E identifier \in Symbols : ManagerRemoveMeshes(identifier)
    \/ \E old \in Symbols, new \in Symbols : ManagerRenameMeshes(old, new)
    \/ \E identifier \in Symbols : ManagerRetrieveMeshes(identifier)

SpecManager == ManagerInit /\ [][ManagerNext]_vars

\* C28: update_meshes with symbol None changes nothing; with symbol Some(c)
\* it replaces the entry of c by newly created meshes, one per patch in patch
\* order, and leaves every other entry unchanged.
C28_UpdateMeshesEffect ==
    [][\A parameters \in ManagerModels :
          ManagerUpdateMeshes(parameters) =>
              IF parameters.symbol = None
              THEN mgr'.mesh_map = mgr.mesh_map
              ELSE LET c == Unwrap(parameters.symbol)
                       entry == Unwrap(mgr'.mesh_map[c])
                   IN  /\ has_meshes(mgr'.mesh_map, c)
                       /\ Len(entry) = Len(parameters.patches)
                       /\ \A n \in 1..Len(entry) : entry[n] = CreateMesh(parameters.patches[n])
                       /\ \A d \in Symbols \ {c} : mgr'.mesh_map[d] = mgr.mesh_map[d]]_vars

\* an entry of two meshes has replaced an older one while the other symbol
\* kept its meshes
C28_Witness ==
    /\ mgr.pc = "manager" /\ mgr.calls = 3
    /\ mgr.mesh_map["a"] = Some(<<CreateMesh(RedPatch), CreateMesh(BezierPatchDefault)>>)
    /\ mgr.mesh_map["b"] = Some(<<CreateMesh(RedPatch)>>)

\* ------------------------------------------- the two forms of evaluate
\* C30: at the corner parameters (u, v) in {0,1} x {0,1} the matrix-form
\* evaluate of data/patches.rs returns the point that the Bernstein-form
\* evaluate of data/bezier.rs returns for the same 16 control points.
C30_MatrixFormAgreesAtCorners ==
    (/\ geo.op = "matrix_evaluate"
     /\ IsZero(geo.u) \/ IsOne(geo.u)
     /\ IsZero(geo.v) \/ IsOne(geo.v)) =>
        geo.out = PatchEvaluate(geo.parameters, geo.u, geo.v)

\* the y coordinate alone, with u and v exchanged, does agree
MatrixFormYTransposed ==
    geo.op = "matrix_evaluate" =>
        geo.out[2] = PatchEvaluate(geo.parameters, geo.v, geo.u)[2]

\* C29: when the line and polygon meshes are built, every colour lookup stays
\* inside color_palette and the clamp color_palette_size - 1 never underflows.
C29_ColorLookupsInBounds ==
    pal.pc = "scene" =>
        /\ pal.status = "running"
        /\ \A n \in 1..Len(pal.lookups) :
              /\ ~pal.lookups[n].underflow
              /\ IsSome(pal.lookups[n].read) =>
                     Unwrap(pal.lookups[n].read) < Len(pal.color_palette)

\* with a palette whose length is the engine's color_palette_size, and at
\* least one entry, every lookup is in bounds
LookupsInBoundsWhenSizesAgree ==
    (/\ pal.pc = "scene"
     /\ pal.engine_size = Len(pal.color_palette)
     /\ Len(pal.color_palette) > 0) =>
        /\ pal.status = "running"
        /\ \A n \in 1..Len(pal.lookups) : ~pal.lookups[n].underflow

====
